---- MODULE Spec2Model ----
(***************************************************************************)
(* Model of the SocialRPG resolution engine (src/Introvert_rpg.py and      *)
(* src/npc_types.py).                                                      *)
(*                                                                         *)
(* Conventions                                                             *)
(*  - receptiveness, bond and the base_receptiveness / base_bond fields of *)
(*    a modifier bundle are fixed-point numbers in units of 1/60           *)
(*    (1.0 = 60, 0.25 = 15, 0.1 = 6), so that every table constant, the    *)
(*    mean of three table constants and every disinterest penalty is an    *)
(*    integer.                                                             *)
(*  - per-axis multipliers are in tenths (1.2 = 12); the product of three  *)
(*    of them is in thousandths (1.008 = 1008).                            *)
(*  - an optional value (Python None or an object) is a sequence of length *)
(*    0 or 1: None is << >> and an object x is << x >>.                    *)
(*  - a string is a sequence of one-character strings; the empty sequence  *)
(*    stands for both None and "" (both are falsy where the code tests).   *)
(*  - random.randint(a, b) is the set a..b of its possible results; it     *)
(*    raises ValueError exactly when that set is empty (a > b).            *)
(***************************************************************************)
EXTENDS Integers, Sequences, FiniteSets, TLC

VARIABLES player, npc, context, last, main

vars == <<player, npc, context, last, main>>

(***************************************************************************)
(* Bounds of the model.                                                    *)
(***************************************************************************)
MaxSignals == 3
MaxPositives == 9
MaxFlirtUses == 5
MaxFailures == 4

(***************************************************************************)
(* Fixed point and small helpers.                                          *)
(***************************************************************************)
Unit == 60

None == << >>
Some(x) == << x >>

Min2(a, b) == IF a <= b THEN a ELSE b
Max2(a, b) == IF a >= b THEN a ELSE b

\* Python's int(): truncation toward zero of num / den (den > 0)
PyInt(num, den) == IF num >= 0 THEN num \div den ELSE -((-num) \div den)

\* random.randint(a, b): the possible results; empty means ValueError
RandInt(a, b) == a..b

\* random.uniform(a, b) = a + (b - a) * random(): works for a > b as well.
\* The continuous range is sampled at its two ends and its middle.
Uniform(a, b) == {Min2(a, b), (a + b) \div 2, Max2(a, b)}

(***************************************************************************)
(* Strings: str.lower() and the substring test `a in b`.                   *)
(***************************************************************************)
LowerChar(c) == IF c = "A" THEN "a" ELSE IF c = "G" THEN "g" ELSE c

Lower(s) == [i \in 1..Len(s) |-> LowerChar(s[i])]

Contains(sub, s) ==
    \E i \in 0..(Len(s) - Len(sub)) :
        \A j \in 1..Len(sub) : s[i + j] = sub[j]

STR_art == <<"a", "r", "t">>
STR_Art == <<"A", "r", "t">>
STR_golf == <<"g", "o", "l", "f">>
STR_artist == <<"a", "r", "t", "i", "s", "t">>
STR_Golf_pro == <<"G", "o", "l", "f", " ", "p", "r", "o">>
STR_chess == <<"c", "h", "e", "s", "s">>

Topics == {None, STR_Art, STR_golf, STR_chess}

(***************************************************************************)
(* Enumerations (src/Introvert_rpg.py 25-41, src/npc_types.py 16-40).      *)
(***************************************************************************)
AttractionLevel == {"neutral", "platonic", "romantic"}

RiskLevel == {"safe", "moderate", "risky", "very_risky"}

ExchangeOutcome == {"very_positive", "positive", "neutral", "negative", "failed"}

NPCRole == {"service_worker", "professional", "social", "stranger",
            "leisure", "neighbor", "regular"}

PersonalityArchetype == {"extrovert", "introvert", "skeptic", "enthusiast", "balanced"}

SocialContext == {"task_focused", "leisure", "trapped", "working", "socializing"}

(***************************************************************************)
(* Modifier model (src/npc_types.py).                                      *)
(***************************************************************************)
\* the dataclass defaults
NPCTypeModifiers ==
    [base_receptiveness |-> 120, base_bond |-> 0,
     conversation_patience |-> 10, time_pressure |-> FALSE, domain_boost |-> 0,
     battery_drain_multiplier |-> 10,
     carries_conversation |-> FALSE, comfortable_silence |-> FALSE,
     critical_of_flirting |-> FALSE, enthusiastic_about_interests |-> FALSE,
     failure_tolerance_modifier |-> 0, exits_gracefully |-> TRUE]

get_role_modifiers(role) ==
    CASE role = "service_worker" ->
           [NPCTypeModifiers EXCEPT !.base_receptiveness = 90,
                !.conversation_patience = 7, !.time_pressure = TRUE,
                !.battery_drain_multiplier = 12,
                !.failure_tolerance_modifier = -1]
      [] role = "professional" ->
           [NPCTypeModifiers EXCEPT !.base_receptiveness = 120,
                !.conversation_patience = 10, !.domain_boost = 2,
                !.battery_drain_multiplier = 11]
      [] role = "social" ->
           [NPCTypeModifiers EXCEPT !.base_receptiveness = 150,
                !.conversation_patience = 12,
                !.battery_drain_multiplier = 13,
                !.failure_tolerance_modifier = 1]
      [] role = "stranger" ->
           [NPCTypeModifiers EXCEPT !.base_receptiveness = 60,
                !.conversation_patience = 6, !.time_pressure = TRUE,
                !.battery_drain_multiplier = 14,
                !.failure_tolerance_modifier = -1,
                !.exits_gracefully = FALSE]
      [] role = "leisure" ->
           [NPCTypeModifiers EXCEPT !.base_receptiveness = 132,
                !.conversation_patience = 11,
                !.battery_drain_multiplier = 9,
                !.failure_tolerance_modifier = 1]
      [] role = "neighbor" ->
           [NPCTypeModifiers EXCEPT !.base_receptiveness = 120,
                !.base_bond = 15, !.conversation_patience = 10,
                !.battery_drain_multiplier = 9,
                !.failure_tolerance_modifier = 1]
      [] role = "regular" ->
           [NPCTypeModifiers EXCEPT !.base_receptiveness = 108,
                !.base_bond = 30, !.conversation_patience = 9,
                !.battery_drain_multiplier = 10]
      [] OTHER -> NPCTypeModifiers

get_archetype_modifiers(archetype) ==
    CASE archetype = "extrovert" ->
           [NPCTypeModifiers EXCEPT !.base_receptiveness = 150,
                !.conversation_patience = 13, !.carries_conversation = TRUE,
                !.battery_drain_multiplier = 14,
                !.failure_tolerance_modifier = 2]
      [] archetype = "introvert" ->
           [NPCTypeModifiers EXCEPT !.base_receptiveness = 108,
                !.conversation_patience = 10, !.comfortable_silence = TRUE,
                !.battery_drain_multiplier = 7]
      [] archetype = "skeptic" ->
           [NPCTypeModifiers EXCEPT !.base_receptiveness = 78,
                !.conversation_patience = 8, !.critical_of_flirting = TRUE,
                !.battery_drain_multiplier = 12,
                !.failure_tolerance_modifier = -1,
                !.exits_gracefully = FALSE]
      [] archetype = "enthusiast" ->
           [NPCTypeModifiers EXCEPT !.base_receptiveness = 138,
                !.conversation_patience = 12, !.domain_boost = 3,
                !.enthusiastic_about_interests = TRUE,
                !.battery_drain_multiplier = 13,
                !.failure_tolerance_modifier = 1]
      [] archetype = "balanced" ->
           [NPCTypeModifiers EXCEPT !.base_receptiveness = 120,
                !.conversation_patience = 10,
                !.battery_drain_multiplier = 10]
      [] OTHER -> NPCTypeModifiers

\* The TRAPPED entry is built with three random.choice calls each time the
\* table is built, so the fetch yields a set of possible bundles.
get_context_modifiers(ctx) ==
    CASE ctx = "task_focused" ->
           {[NPCTypeModifiers EXCEPT !.base_receptiveness = 102,
                !.conversation_patience = 8, !.time_pressure = TRUE,
                !.battery_drain_multiplier = 11,
                !.failure_tolerance_modifier = -1]}
      [] ctx = "leisure" ->
           {[NPCTypeModifiers EXCEPT !.base_receptiveness = 138,
                !.conversation_patience = 12,
                !.battery_drain_multiplier = 9,
                !.failure_tolerance_modifier = 1]}
      [] ctx = "trapped" ->
           {[NPCTypeModifiers EXCEPT !.base_receptiveness = r,
                !.conversation_patience = p,
                !.battery_drain_multiplier = 10,
                !.failure_tolerance_modifier = t] :
                r \in {90, 150}, p \in {7, 11}, t \in {-1, 1}}
      [] ctx = "working" ->
           {[NPCTypeModifiers EXCEPT !.base_receptiveness = 90,
                !.conversation_patience = 7, !.time_pressure = TRUE,
                !.battery_drain_multiplier = 12,
                !.failure_tolerance_modifier = -1]}
      [] ctx = "socializing" ->
           {[NPCTypeModifiers EXCEPT !.base_receptiveness = 150,
                !.conversation_patience = 13,
                !.battery_drain_multiplier = 12,
                !.failure_tolerance_modifier = 2]}
      [] OTHER -> {NPCTypeModifiers}

\* Variant: the receptiveness of the three bundles is summed, not averaged
combine_modifiers_summed(role_mods, archetype_mods, context_mods) ==
    [base_receptiveness |->
        role_mods.base_receptiveness + archetype_mods.base_receptiveness
           + context_mods.base_receptiveness,
     base_bond |->
        Max2(role_mods.base_bond,
             Max2(archetype_mods.base_bond, context_mods.base_bond)),
     conversation_patience |->
        role_mods.conversation_patience * archetype_mods.conversation_patience
           * context_mods.conversation_patience,
     time_pressure |->
        role_mods.time_pressure \/ archetype_mods.time_pressure
           \/ context_mods.time_pressure,
     domain_boost |->
        role_mods.domain_boost + archetype_mods.domain_boost
           + context_mods.domain_boost,
     battery_drain_multiplier |->
        role_mods.battery_drain_multiplier
           * archetype_mods.battery_drain_multiplier
           * context_mods.battery_drain_multiplier,
     carries_conversation |->
        role_mods.carries_conversation \/ archetype_mods.carries_conversation,
     comfortable_silence |->
        role_mods.comfortable_silence \/ archetype_mods.comfortable_silence,
     critical_of_flirting |->
        role_mods.critical_of_flirting \/ archetype_mods.critical_of_flirting,
     enthusiastic_about_interests |->
        role_mods.enthusiastic_about_interests
           \/ archetype_mods.enthusiastic_about_interests,
     failure_tolerance_modifier |->
        role_mods.failure_tolerance_modifier
           + archetype_mods.failure_tolerance_modifier
           + context_mods.failure_tolerance_modifier,
     exits_gracefully |->
        role_mods.exits_gracefully /\ archetype_mods.exits_gracefully
           /\ context_mods.exits_gracefully]

\* Variant: the bond of the three bundles is summed, not the highest taken
combine_modifiers_bond_added(role_mods, archetype_mods, context_mods) ==
    [base_receptiveness |->
        (role_mods.base_receptiveness + archetype_mods.base_receptiveness
           + context_mods.base_receptiveness) \div 3,
     base_bond |->
        role_mods.base_bond + archetype_mods.base_bond
           + context_mods.base_bond,
     conversation_patience |->
        role_mods.conversation_patience * archetype_mods.conversation_patience
           * context_mods.conversation_patience,
     time_pressure |->
        role_mods.time_pressure \/ archetype_mods.time_pressure
           \/ context_mods.time_pressure,
     domain_boost |->
        role_mods.domain_boost + archetype_mods.domain_boost
           + context_mods.domain_boost,
     battery_drain_multiplier |->
        role_mods.battery_drain_multiplier
           * archetype_mods.battery_drain_multiplier
           * context_mods.battery_drain_multiplier,
     carries_conversation |->
        role_mods.carries_conversation \/ archetype_mods.carries_conversation,
     comfortable_silence |->
        role_mods.comfortable_silence \/ archetype_mods.comfortable_silence,
     critical_of_flirting |->
        role_mods.critical_of_flirting \/ archetype_mods.critical_of_flirting,
     enthusiastic_about_interests |->
        role_mods.enthusiastic_about_interests
           \/ archetype_mods.enthusiastic_about_interests,
     failure_tolerance_modifier |->
        role_mods.failure_tolerance_modifier
           + archetype_mods.failure_tolerance_modifier
           + context_mods.failure_tolerance_modifier,
     exits_gracefully |->
        role_mods.exits_gracefully /\ archetype_mods.exits_gracefully
           /\ context_mods.exits_gracefully]

\* Variant: the four trait flags take the context bundle's value as well
combine_modifiers_context_traits(role_mods, archetype_mods, context_mods) ==
    [base_receptiveness |->
        (role_mods.base_receptiveness + archetype_mods.base_receptiveness
           + context_mods.base_receptiveness) \div 3,
     base_bond |->
        Max2(role_mods.base_bond,
             Max2(archetype_mods.base_bond, context_mods.base_bond)),
     conversation_patience |->
        role_mods.conversation_patience * archetype_mods.conversation_patience
           * context_mods.conversation_patience,
     time_pressure |->
        role_mods.time_pressure \/ archetype_mods.time_pressure
           \/ context_mods.time_pressure,
     domain_boost |->
        role_mods.domain_boost + archetype_mods.domain_boost
           + context_mods.domain_boost,
     battery_drain_multiplier |->
        role_mods.battery_drain_multiplier
           * archetype_mods.battery_drain_multiplier
           * context_mods.battery_drain_multiplier,
     carries_conversation |->
        role_mods.carries_conversation \/ archetype_mods.carries_conversation
           \/ context_mods.carries_conversation,
     comfortable_silence |->
        role_mods.comfortable_silence \/ archetype_mods.comfortable_silence
           \/ context_mods.comfortable_silence,
     critical_of_flirting |->
        role_mods.critical_of_flirting \/ archetype_mods.critical_of_flirting
           \/ context_mods.critical_of_flirting,
     enthusiastic_about_interests |->
        role_mods.enthusiastic_about_interests
           \/ archetype_mods.enthusiastic_about_interests
           \/ context_mods.enthusiastic_about_interests,
     failure_tolerance_modifier |->
        role_mods.failure_tolerance_modifier
           + archetype_mods.failure_tolerance_modifier
           + context_mods.failure_tolerance_modifier,
     exits_gracefully |->
        role_mods.exits_gracefully /\ archetype_mods.exits_gracefully
           /\ context_mods.exits_gracefully]

\* the combined bundle: multipliers in thousandths, the rest as the inputs
combine_modifiers(role_mods, archetype_mods, context_mods) ==
    [base_receptiveness |->
        (role_mods.base_receptiveness + archetype_mods.base_receptiveness
           + context_mods.base_receptiveness) \div 3,
     base_bond |->
        Max2(role_mods.base_bond,
             Max2(archetype_mods.base_bond, context_mods.base_bond)),
     conversation_patience |->
        role_mods.conversation_patience * archetype_mods.conversation_patience
           * context_mods.conversation_patience,
     time_pressure |->
        role_mods.time_pressure \/ archetype_mods.time_pressure
           \/ context_mods.time_pressure,
     domain_boost |->
        role_mods.domain_boost + archetype_mods.domain_boost
           + context_mods.domain_boost,
     battery_drain_multiplier |->
        role_mods.battery_drain_multiplier
           * archetype_mods.battery_drain_multiplier
           * context_mods.battery_drain_multiplier,
     carries_conversation |->
        role_mods.carries_conversation \/ archetype_mods.carries_conversation,
     comfortable_silence |->
        role_mods.comfortable_silence \/ archetype_mods.comfortable_silence,
     critical_of_flirting |->
        role_mods.critical_of_flirting \/ archetype_mods.critical_of_flirting,
     enthusiastic_about_interests |->
        role_mods.enthusiastic_about_interests
           \/ archetype_mods.enthusiastic_about_interests,
     failure_tolerance_modifier |->
        role_mods.failure_tolerance_modifier
           + archetype_mods.failure_tolerance_modifier
           + context_mods.failure_tolerance_modifier,
     exits_gracefully |->
        role_mods.exits_gracefully /\ archetype_mods.exits_gracefully
           /\ context_mods.exits_gracefully]

\* Variant: the call resolves the random fields of a trapped context again
combine_modifiers_results_redrawn(role_mods, archetype_mods, context_mods) ==
    {combine_modifiers(role_mods, archetype_mods, c) :
        c \in {context_mods} \cup get_context_modifiers("trapped")}

\* the bundles one call of combine_modifiers can return for three bundles
\* already fetched: the body reads its arguments only, so there is one
combine_modifiers_results(role_mods, archetype_mods, context_mods) ==
    {combine_modifiers(role_mods, archetype_mods, context_mods)}

adjust_failure_tolerance(base_tolerance, modifiers) ==
    Max2(0, base_tolerance + modifiers.failure_tolerance_modifier)

\* int(base_drain * multiplier), the combined multiplier in thousandths
adjust_battery_drain(base_drain, modifiers) ==
    PyInt(base_drain * modifiers.battery_drain_multiplier, 1000)

\* int(base_rate * 0.7) in IEEE double arithmetic: 0.7 is slightly below
\* 7/10, so an exact multiple of ten does not always survive the product
\* (int(90 * 0.7) = 62 while int(70 * 0.7) = 49, int(50 * 0.7) = 35 and
\* int(10 * 0.7) = 7).
adjust_flirt_success(base_rate, modifiers) ==
    IF modifiers.critical_of_flirting
    THEN IF base_rate = 90 THEN 62 ELSE (base_rate * 7) \div 10
    ELSE base_rate


(***************************************************************************)
(* Character model (src/Introvert_rpg.py 47-89).                           *)
(***************************************************************************)
SkillNames == {"eloquence", "emotional_intelligence", "body_language_perception",
               "persuasion", "acting", "intuition"}

\* dict.get(key, 0)
DictGet(d, k) == IF k \in DOMAIN d THEN d[k] ELSE 0

\* Variant: social_battery defaults to the top of the bandwidth scale
CharacterStats_BatteryDefault(stats, profession, hobbies) ==
    [eloquence |-> DictGet(stats, "eloquence"),
     emotional_intelligence |-> DictGet(stats, "emotional_intelligence"),
     body_language_perception |-> DictGet(stats, "body_language_perception"),
     persuasion |-> DictGet(stats, "persuasion"),
     acting |-> DictGet(stats, "acting"),
     intuition |-> DictGet(stats, "intuition"),
     social_battery |-> 100,
     emotional_bandwidth |-> 100,
     profession |-> profession,
     hobbies |-> hobbies]

\* the dataclass constructor call of create_character, with the defaults of
\* social_battery and emotional_bandwidth
CharacterStats(stats, profession, hobbies) ==
    [eloquence |-> DictGet(stats, "eloquence"),
     emotional_intelligence |-> DictGet(stats, "emotional_intelligence"),
     body_language_perception |-> DictGet(stats, "body_language_perception"),
     persuasion |-> DictGet(stats, "persuasion"),
     acting |-> DictGet(stats, "acting"),
     intuition |-> DictGet(stats, "intuition"),
     social_battery |-> 50,
     emotional_bandwidth |-> 100,
     profession |-> profession,
     hobbies |-> hobbies]

total_points(c) ==
    c.eloquence + c.emotional_intelligence + c.body_language_perception
      + c.persuasion + c.acting + c.intuition

\* is_domain of get_domain_bonus
is_domain(c, topic) ==
    \/ Contains(Lower(topic), Lower(c.profession))
    \/ \E hobby \in c.hobbies : Contains(Lower(topic), Lower(hobby))

\* values of sum(bonuses.values()): one randint(1, 3) for each of the four
\* listed skills whose value is <= 1, nothing when the topic is not in the
\* player's domain.  The sums are sampled by giving every such skill the
\* same bonus (k, 2k and 3k out of k..3k).
get_domain_bonus_sums(c, topic) ==
    IF ~is_domain(c, topic)
    THEN {0}
    ELSE LET k == Cardinality({s \in {"eloquence", "acting", "persuasion", "intuition"} :
                                  c[s] <= 1})
         IN  IF k = 0 THEN {0}
             ELSE {k * bonus : bonus \in RandInt(1, 3)}

(***************************************************************************)
(* NPC model (src/Introvert_rpg.py 91-166).                                *)
(***************************************************************************)
\* the dataclass constructor call of generate_npc, with the defaults of the
\* interaction fields; acknowledged says whether the background text holds
\* the marker "explicitly acknowledged"
NPCState(role, archetype, social_context, acknowledged) ==
    [role |-> role, archetype |-> archetype, social_context |-> social_context,
     acknowledged |-> acknowledged,
     type_modifiers |-> None,
     receptiveness |-> 2 * Unit,
     bond |-> 0,
     consecutive_positives |-> 0,
     attraction_level |-> "neutral",
     base_flirt_success |-> 90,
     flirt_uses |-> 0,
     failures_this_interaction |-> 0,
     disinterest_signals |-> 0]

apply_modifiers_to_npc(npc_state, modifiers) ==
    [npc_state EXCEPT !.receptiveness = modifiers.base_receptiveness,
                      !.bond = modifiers.base_bond,
                      !.type_modifiers = Some(modifiers)]

\* Variant: the tier of bonds from 2.0 to 3.0 tolerates three failures
base_tolerance_stepped(n) ==
    IF n.bond < 1 * Unit THEN 1
    ELSE IF n.bond < 2 * Unit THEN 2
    ELSE IF n.bond < 3 * Unit THEN 3
    ELSE IF n.bond < 4 * Unit THEN 3
    ELSE 4

\* base tolerance by bond level
base_tolerance(n) ==
    IF n.bond < 1 * Unit THEN 1
    ELSE IF n.bond < 2 * Unit THEN 2
    ELSE IF n.bond < 3 * Unit THEN 2
    ELSE IF n.bond < 4 * Unit THEN 3
    ELSE 4

failure_tolerance(n) ==
    IF n.type_modifiers # None
    THEN adjust_failure_tolerance(base_tolerance(n), n.type_modifiers[1])
    ELSE base_tolerance(n)

can_tolerate_failure(n) ==
    n.failures_this_interaction < failure_tolerance(n)

restoration(n) ==
    IF n.bond < 1 * Unit THEN n.consecutive_positives * 2
    ELSE IF n.bond < 2 * Unit THEN n.consecutive_positives * 3
    ELSE IF n.bond < 3 * Unit THEN n.consecutive_positives * 4
    ELSE IF n.bond < 4 * Unit THEN n.consecutive_positives * 5
    ELSE n.consecutive_positives * 6

\* Variant: the rate is returned without the clamp
get_flirt_success_rate_unclamped(n) ==
    n.base_flirt_success - n.flirt_uses * 20 + restoration(n)

get_flirt_success_rate(n) ==
    LET rate == n.base_flirt_success - n.flirt_uses * 20 + restoration(n)
    IN  Max2(10, Min2(100, rate))

(***************************************************************************)
(* Interaction context (src/Introvert_rpg.py 179-197).                     *)
(***************************************************************************)
\* The context refers to the engine's player and to the NPC it was started
\* with; the model keeps one player and one NPC, so the references are
\* implicit and the context holds its own two fields.
InteractionContext == [momentum_bonus |-> 0, domain_active |-> None]

get_momentum_cap(risk) ==
    CASE risk = "safe" -> 10
      [] risk = "moderate" -> 12
      [] risk = "risky" -> 14
      [] risk = "very_risky" -> 16


\* Variant: a failed safe move is classified negative
determine_outcome_graded(choice, success, n) ==
    IF ~success
    THEN (IF choice.risk_level = "safe" THEN {"negative"} ELSE {"failed"})
    ELSE IF choice.risk_level = "very_risky" /\ n.bond >= 4 * Unit
         THEN {"very_positive"}
    ELSE IF choice.risk_level \in {"risky", "very_risky"}
         THEN {"very_positive", "positive"}
    ELSE IF choice.risk_level = "moderate" THEN {"positive"}
    ELSE {"positive", "neutral"}

(***************************************************************************)
(* Resolution engine (src/Introvert_rpg.py 509-737).                       *)
(***************************************************************************)
\* _determine_outcome: the outcomes the two random.random() draws allow
determine_outcome(choice, success, n) ==
    IF ~success THEN {"failed"}
    ELSE IF choice.risk_level = "very_risky" /\ n.bond >= 4 * Unit
         THEN {"very_positive"}
    ELSE IF choice.risk_level \in {"risky", "very_risky"}
         THEN {"very_positive", "positive"}
    ELSE IF choice.risk_level = "moderate" THEN {"positive"}
    ELSE {"positive", "neutral"}

\* The three battery tables.  A Python dict display evaluates every entry,
\* so each entry is the set of values its expression can take.
battery_changes(attraction) ==
    IF attraction = "romantic"
    THEN [very_positive |-> RandInt(2, 3),
          positive |-> RandInt(1, 2),
          neutral |-> RandInt(-3, -4),
          negative |-> RandInt(-8, -10),
          failed |-> {-(x + 4) : x \in RandInt(18, 20)}]
    ELSE IF attraction = "platonic"
    THEN [very_positive |-> {1},
          positive |-> {-1},
          neutral |-> RandInt(-4, -5),
          negative |-> RandInt(-7, -9),
          failed |-> {-(x + 4) : x \in RandInt(14, 16)}]
    ELSE [very_positive |-> {0},
          positive |-> {-2},
          neutral |-> RandInt(-5, -6),
          negative |-> RandInt(-6, -8),
          failed |-> {-(x + 4) : x \in RandInt(15, 17)}]

approach_costs(attraction) ==
    CASE attraction = "romantic" -> -7
      [] attraction = "platonic" -> -5
      [] attraction = "neutral" -> -3

bandwidth_changes(attraction) ==
    IF attraction = "romantic"
    THEN [very_positive |-> RandInt(3, 5),
          positive |-> RandInt(1, 2),
          neutral |-> RandInt(-4, -5),
          negative |-> RandInt(-8, -10),
          failed |-> {-x : x \in RandInt(18, 26)}]
    ELSE IF attraction = "platonic"
    THEN [very_positive |-> RandInt(1, 2),
          positive |-> {0},
          neutral |-> RandInt(-6, -7),
          negative |-> RandInt(-7, -9),
          failed |-> {-(x + 3) : x \in RandInt(10, 13)}]
    ELSE [very_positive |-> {0},
          positive |-> {-2},
          neutral |-> RandInt(-7, -8),
          negative |-> RandInt(-6, -8),
          failed |-> {-(x + 3) : x \in RandInt(9, 12)}]

\* building the dict raises ValueError when one of its randint calls does
DictRaises(d) == \E o \in DOMAIN d : d[o] = {}

\* the clamps of _apply_outcome
ClampBattery(x) == Max2(-50, Min2(50, x))
ClampBandwidth(x) == Max2(0, Min2(100, x))
ClampScale(x) == Max2(0, Min2(10 * Unit, x))

receptiveness_deltas(outcome) ==
    CASE outcome = "very_positive" -> Uniform(45, 60)
      [] outcome = "positive" -> Uniform(15, 30)
      [] outcome = "neutral" -> Uniform(-15, 0)
      [] outcome = "failed" -> Uniform(-30, -60)
      [] OTHER -> {0}

bond_deltas(outcome) ==
    CASE outcome = "very_positive" -> Uniform(45, 60)
      [] outcome = "positive" -> Uniform(15, 30)
      [] outcome = "neutral" -> Uniform(-15, 0)
      [] outcome = "failed" -> Uniform(-15, -30)
      [] OTHER -> {0}

\* social battery step (lines 633-646): add the table value, then, for an
\* NPC with a bundle, take it back and add the rescaled value; clamp
battery_step(p, n, base_change) ==
    LET added == p.social_battery + base_change
        replaced == IF n.type_modifiers # None
                    THEN added - base_change
                           + adjust_battery_drain(base_change, n.type_modifiers[1])
                    ELSE added
    IN  [p EXCEPT !.social_battery = ClampBattery(replaced)]

\* approach cost (lines 653-659)
approach_step(p, n) ==
    IF n.bond = 0
    THEN [p EXCEPT !.emotional_bandwidth = @ + approach_costs(n.attraction_level)]
    ELSE p

\* exchange cost, rejection sting and clamp (lines 687-693)
bandwidth_step(p, choice, success, change) ==
    LET exchanged == p.emotional_bandwidth + change
        stung == IF choice.is_flirt /\ ~success THEN exchanged - 5 ELSE exchanged
    IN  [p EXCEPT !.emotional_bandwidth = ClampBandwidth(stung)]

\* receptiveness and bond (lines 699-721)
npc_scale_step(n, dr, db) ==
    [n EXCEPT !.receptiveness = ClampScale(@ + dr),
              !.bond = ClampScale(@ + db)]

\* momentum, failure and flirt tracking (lines 723-737)
tracking_step(n, outcome, choice) ==
    LET positives == IF outcome \in {"very_positive", "positive"}
                     THEN n.consecutive_positives + 1 ELSE 0
    IN  [n EXCEPT !.consecutive_positives = positives,
                  !.failures_this_interaction =
                      IF outcome = "failed" THEN @ + 1 ELSE @,
                  !.flirt_uses = IF choice.is_flirt THEN @ + 1 ELSE @]

\* Variant: the call lowers the bond by 0.25 before it raises
apply_outcome_bond_lowered(outcome, choice, c, p, n, success) ==
    {[player |-> p, npc |-> [n EXCEPT !.bond = ClampScale(@ - Unit \div 4)],
      context |-> c, error |-> "ValueError"]}

\* _apply_outcome: every result the call can have, as the player, the NPC
\* and the context it leaves and the exception it raises, if any.  The
\* statements run in the order of the source, so an exception keeps what
\* was assigned before it.
apply_outcome(outcome, choice, c, p, n, success) ==
    LET bat == battery_changes(n.attraction_level)
        bw == bandwidth_changes(n.attraction_level)
    IN  IF DictRaises(bat)
        THEN {[player |-> p, npc |-> n, context |-> c, error |-> "ValueError"]}
        ELSE UNION {
          LET p1 == approach_step(battery_step(p, n, base_change), n)
          IN  IF DictRaises(bw)
              THEN {[player |-> p1, npc |-> n, context |-> c, error |-> "ValueError"]}
              ELSE {[player |-> bandwidth_step(p1, choice, success, change),
                     npc |-> tracking_step(npc_scale_step(n, dr, db), outcome, choice),
                     context |-> [c EXCEPT !.momentum_bonus =
                                    IF outcome \in {"very_positive", "positive"}
                                    THEN (n.consecutive_positives + 1) * 2 ELSE 0],
                     error |-> "none"] :
                       change \in bw[outcome],
                       dr \in receptiveness_deltas(outcome),
                       db \in bond_deltas(outcome)}
          : base_change \in bat[outcome]}

\* Variant: the whole momentum bonus is added
actual_momentum_uncapped(c, choice) == c.momentum_bonus

\* lines 519-520
actual_momentum(c, choice) ==
    Min2(c.momentum_bonus, get_momentum_cap(choice.risk_level))

\* lines 524-528: the values of domain_boost
domain_boosts(c, p, choice) ==
    IF choice.topic # None /\ c.domain_active # None
    THEN {2 * s : s \in get_domain_bonus_sums(p, choice.topic)}
    ELSE {0}

\* Variant: the flirt rate is added to the rate built so far
success_rate_added(c, n, choice, boost) ==
    IF choice.is_flirt /\ n.attraction_level = "romantic"
    THEN choice.base_success_rate + actual_momentum(c, choice) + boost
            + get_flirt_success_rate(n)
    ELSE choice.base_success_rate + actual_momentum(c, choice) + boost

\* lines 516-533: the success rate, given the domain boost drawn
success_rate(c, n, choice, boost) ==
    IF choice.is_flirt /\ n.attraction_level = "romantic"
    THEN get_flirt_success_rate(n)
    ELSE choice.base_success_rate + actual_momentum(c, choice) + boost


(***************************************************************************)
(* Disinterest subsystem and termination policy                            *)
(* (src/Introvert_rpg.py 743-824).                                         *)
(***************************************************************************)
\* trigger_rates.get(acting, 0.4) * multiplier, in thousandths
trigger_rate(p, n) ==
    LET base == CASE p.acting \in {0, 1} -> 600
                  [] p.acting = 2 -> 400
                  [] p.acting = 3 -> 200
                  [] p.acting \in {4, 5} -> 100
                  [] OTHER -> 400
    IN  IF n.attraction_level = "romantic" THEN base \div 2 ELSE base

\* Variant: a topic within the active domain is not an exception
disinterest_exempt_marker_only(topic, c, n) ==
    n.bond > 0 /\ n.acknowledged

\* the two early returns of check_disinterest_trigger
disinterest_exempt(topic, c, n) ==
    \/ /\ topic # None
       /\ c.domain_active # None
       /\ Contains(Lower(topic), Lower(c.domain_active))
    \/ n.bond > 0 /\ n.acknowledged

\* Variant: the second signal costs receptiveness only
disinterest_consequence_bond_kept(n) ==
    IF n.disinterest_signals = 1
    THEN [n EXCEPT !.receptiveness = @ - 15]
    ELSE IF n.disinterest_signals = 2
    THEN [n EXCEPT !.receptiveness = @ - 30]
    ELSE [n EXCEPT !.receptiveness = @ - 60, !.bond = @ - 30]

\* the NPC after apply_disinterest_consequence
disinterest_consequence(n) ==
    IF n.disinterest_signals = 1
    THEN [n EXCEPT !.receptiveness = @ - 15]
    ELSE IF n.disinterest_signals = 2
    THEN [n EXCEPT !.receptiveness = @ - 30, !.bond = @ - 15]
    ELSE [n EXCEPT !.receptiveness = @ - 60, !.bond = @ - 30]

\* Variant: the disinterest signals are looked at before the failure tolerance
should_npc_exit_signals_first(n) ==
    IF n.disinterest_signals >= 3
    THEN [exit |-> TRUE, message |-> "lost interest"]
    ELSE IF ~can_tolerate_failure(n)
    THEN [exit |-> TRUE, message |-> "politely wraps up"]
    ELSE IF n.receptiveness < 1 * Unit
    THEN [exit |-> TRUE, message |-> "uncomfortable excuse"]
    ELSE [exit |-> FALSE, message |-> ""]

\* Variant: the signal test is strict
should_npc_exit_strict(n) ==
    IF ~can_tolerate_failure(n)
    THEN [exit |-> TRUE, message |-> "politely wraps up"]
    ELSE IF n.disinterest_signals > 3
    THEN [exit |-> TRUE, message |-> "lost interest"]
    ELSE IF n.receptiveness < 1 * Unit
    THEN [exit |-> TRUE, message |-> "uncomfortable excuse"]
    ELSE [exit |-> FALSE, message |-> ""]

\* should_npc_exit: the flag and the kind of exit message
should_npc_exit(n) ==
    IF ~can_tolerate_failure(n)
    THEN [exit |-> TRUE, message |-> "politely wraps up"]
    ELSE IF n.disinterest_signals >= 3
    THEN [exit |-> TRUE, message |-> "lost interest"]
    ELSE IF n.receptiveness < 1 * Unit
    THEN [exit |-> TRUE, message |-> "uncomfortable excuse"]
    ELSE [exit |-> FALSE, message |-> ""]

(***************************************************************************)
(* Inputs of the operations.                                               *)
(***************************************************************************)
\* stats dictionaries given to create_character: totals of 15, 14 and 16,
\* and dictionaries with missing keys that total 15 and 14
StatsInputs ==
    {[eloquence |-> 3, emotional_intelligence |-> 2, body_language_perception |-> 3,
      persuasion |-> 2, acting |-> 2, intuition |-> 3],
     [eloquence |-> 3, emotional_intelligence |-> 2, body_language_perception |-> 3,
      persuasion |-> 2, acting |-> 2, intuition |-> 2],
     [eloquence |-> 3, emotional_intelligence |-> 2, body_language_perception |-> 3,
      persuasion |-> 2, acting |-> 3, intuition |-> 3],
     [eloquence |-> 10, acting |-> 5],
     [eloquence |-> 10, acting |-> 4]}

Backgrounds == {[profession |-> STR_artist, hobbies |-> {STR_Golf_pro}]}

\* what NPCs are generated with: role, archetype, context and whether the
\* generated background holds the marker
Spawns ==
    {<<"service_worker", "balanced", "leisure", FALSE>>,
     <<"neighbor", "balanced", "leisure", TRUE>>,
     <<"regular", "skeptic", "working", FALSE>>}

\* one base success rate inside the band of each risk tier
BaseRate(risk) ==
    CASE risk = "safe" -> 80
      [] risk = "moderate" -> 65
      [] risk = "risky" -> 45
      [] risk = "very_risky" -> 25

Choices ==
    {[risk_level |-> r, base_success_rate |-> BaseRate(r), is_flirt |-> f, topic |-> t] :
        r \in RiskLevel, f \in BOOLEAN, t \in {None, STR_Art}}

\* sample of the results of random.randint(1, 100) in resolve_choice
RollSamples == {r \in RandInt(1, 100) : r \in {1, 50, 100}}

\* sample of the results of random.randint(1, 100) in determine_attraction
FlirtRollSamples == {r \in RandInt(1, 100) : r \in {5, 6, 20, 21, 80, 81}}

\* sample of the results of random.random() in thousandths
DrawSamples == {0, 50, 300, 999}

(***************************************************************************)
(* State.                                                                  *)
(*   player   the engine's current player (self.player), None before one   *)
(*            is created                                                   *)
(*   npc      the NPC the caller holds, None before one is generated       *)
(*   context  the engine's current interaction, None before one is started *)
(*   last     the last operation called: its name, the exception it raised *)
(*            and what it computed and returned                            *)
(*   main     the example session of main(): where it is, its turn        *)
(*            counter and the moves it has on offer                       *)
(***************************************************************************)
NoLast ==
    [op |-> "none", error |-> "none", arg |-> None, ret |-> None,
     rate |-> 0, momentum |-> 0, boost |-> 0, roll |-> 0, success |-> FALSE,
     outcome |-> "none"]

\* main() not running: the engine is driven by its caller directly
NoMain == [pc |-> "idle", turn |-> 0, choices |-> << >>, ended |-> "none"]

Init ==
    /\ player = None
    /\ npc = None
    /\ context = None
    /\ last = NoLast
    /\ main = NoMain

(***************************************************************************)
(* Operations of the engine.                                               *)
(***************************************************************************)
\* Variant: the character becomes the current player before the total is
\* checked
CreateCharacter_AssignFirst(stats, background) ==
    LET char == CharacterStats(stats, background.profession, background.hobbies)
    IN  /\ context = None
        /\ player' = Some(char)
        /\ last' = IF total_points(char) # 15
                   THEN [NoLast EXCEPT !.op = "create_character",
                                       !.error = "ValueError", !.arg = Some(stats)]
                   ELSE [NoLast EXCEPT !.op = "create_character",
                                       !.arg = Some(stats), !.ret = Some(char)]
        /\ UNCHANGED <<npc, context>>

\* create_character.  A call that replaces the player is made before an
\* interaction is started (the context refers to the player it was started
\* with); a rejected call can come at any time.
CreateCharacter(stats, background) ==
    LET char == CharacterStats(stats, background.profession, background.hobbies)
    IN  IF total_points(char) # 15
        THEN /\ last' = [NoLast EXCEPT !.op = "create_character",
                                       !.error = "ValueError", !.arg = Some(stats)]
             /\ UNCHANGED <<player, npc, context>>
        ELSE /\ context = None
             /\ player' = Some(char)
             /\ last' = [NoLast EXCEPT !.op = "create_character",
                                       !.arg = Some(stats), !.ret = Some(char)]
             /\ UNCHANGED <<npc, context>>

\* generate_npc with its three types given: the generation service's answer
\* either parses (the NPC is built and the combined bundle applied) or does
\* not (json.loads or a missing key raises).  A new NPC replaces the one the
\* caller holds before an interaction is started.
GenerateNpc(role, archetype, social_context, acknowledged, parses) ==
    /\ context = None
    /\ IF parses
       THEN \E ctx_mods \in get_context_modifiers(social_context) :
              LET combined_mods == combine_modifiers(get_role_modifiers(role),
                                       get_archetype_modifiers(archetype), ctx_mods)
                  new == apply_modifiers_to_npc(
                            NPCState(role, archetype, social_context, acknowledged),
                            combined_mods)
              IN  /\ npc' = Some(new)
                  /\ last' = [NoLast EXCEPT !.op = "generate_npc"]
       ELSE /\ last' = [NoLast EXCEPT !.op = "generate_npc",
                                      !.error = "generation_error"]
            /\ UNCHANGED npc
    /\ UNCHANGED <<player, context>>

\* the values base_flirt_success takes for a roll of randint(1, 100)
rolled_flirt_success(roll) ==
    IF roll <= 5 THEN 10
    ELSE IF roll <= 20 THEN 50
    ELSE IF roll <= 80 THEN 70
    ELSE 90

\* Variant: the call stores the attraction on the NPC itself
DetermineAttraction_Stored(approach_choice) ==
    /\ npc # None
    /\ LET attraction == CASE approach_choice = "A" -> "neutral"
                           [] approach_choice = "B" -> "platonic"
                           [] approach_choice = "C" -> "romantic"
                           [] OTHER -> "neutral"
           n == npc[1]
       IN  /\ IF attraction = "romantic"
              THEN \E roll \in FlirtRollSamples :
                     LET rolled == rolled_flirt_success(roll)
                     IN  npc' = Some([n EXCEPT !.attraction_level = attraction,
                                  !.base_flirt_success =
                                  IF n.type_modifiers # None
                                  THEN adjust_flirt_success(rolled, n.type_modifiers[1])
                                  ELSE rolled])
              ELSE npc' = Some([n EXCEPT !.attraction_level = attraction])
           /\ last' = [NoLast EXCEPT !.op = "determine_attraction",
                                     !.arg = Some(approach_choice),
                                     !.ret = Some(attraction)]
    /\ UNCHANGED <<player, context>>

\* determine_attraction(approach_choice, npc)
DetermineAttraction(approach_choice) ==
    /\ npc # None
    /\ LET attraction == CASE approach_choice = "A" -> "neutral"
                           [] approach_choice = "B" -> "platonic"
                           [] approach_choice = "C" -> "romantic"
                           [] OTHER -> "neutral"
           n == npc[1]
       IN  /\ IF attraction = "romantic"
              THEN \E roll \in FlirtRollSamples :
                     LET rolled == rolled_flirt_success(roll)
                     IN  npc' = Some([n EXCEPT !.base_flirt_success =
                                  IF n.type_modifiers # None
                                  THEN adjust_flirt_success(rolled, n.type_modifiers[1])
                                  ELSE rolled])
              ELSE UNCHANGED npc
           /\ last' = [NoLast EXCEPT !.op = "determine_attraction",
                                     !.arg = Some(approach_choice),
                                     !.ret = Some(attraction)]
    /\ UNCHANGED <<player, context>>

\* main, line 897: the caller stores the returned attraction on the NPC
SetAttraction ==
    /\ last.op = "determine_attraction"
    /\ npc' = Some([npc[1] EXCEPT !.attraction_level = last.ret[1]])
    /\ last' = [NoLast EXCEPT !.op = "set_attraction"]
    /\ UNCHANGED <<player, context>>

\* Variant: the bundle of the NPC is computed again when an interaction is
\* started
StartInteraction_Recomputed ==
    /\ player # None
    /\ npc # None
    /\ \E context_mods \in get_context_modifiers(npc[1].social_context) :
         npc' = Some([npc[1] EXCEPT !.type_modifiers =
                   Some(combine_modifiers(get_role_modifiers(npc[1].role),
                          get_archetype_modifiers(npc[1].archetype),
                          context_mods))])
    /\ context' = Some(InteractionContext)
    /\ last' = [NoLast EXCEPT !.op = "start_interaction"]
    /\ UNCHANGED player

\* start_interaction(npc, location, time), called as main does once the
\* player and the NPC exist
StartInteraction ==
    /\ player # None
    /\ npc # None
    /\ context' = Some(InteractionContext)
    /\ last' = [NoLast EXCEPT !.op = "start_interaction"]
    /\ UNCHANGED <<player, npc>>

\* resolve_choice(choice, context): the generation service is taken to
\* answer the request for the response text
ResolveChoice(choice) ==
    /\ context # None
    /\ npc[1].consecutive_positives < MaxPositives
    /\ npc[1].flirt_uses < MaxFlirtUses
    /\ npc[1].failures_this_interaction < MaxFailures
    /\ \E boost \in domain_boosts(context[1], player[1], choice),
          roll \in RollSamples :
         LET rate == success_rate(context[1], npc[1], choice, boost)
             success == roll <= rate
         IN  \E outcome \in determine_outcome(choice, success, npc[1]) :
               \E res \in apply_outcome(outcome, choice, context[1], player[1],
                                        npc[1], success) :
                  /\ player' = Some(res.player)
                  /\ npc' = Some(res.npc)
                  /\ context' = Some(res.context)
                  /\ last' = [op |-> "resolve_choice", error |-> res.error,
                              arg |-> Some([risk_level |-> choice.risk_level,
                                            base_success_rate |-> choice.base_success_rate,
                                            is_flirt |-> choice.is_flirt,
                                            topic |-> choice.topic]),
                              ret |-> IF res.error = "none"
                                      THEN Some(<<success, outcome>>) ELSE None,
                              rate |-> rate,
                              momentum |-> actual_momentum(context[1], choice),
                              boost |-> boost,
                              roll |-> roll, success |-> success,
                              outcome |-> outcome]

\* check_disinterest_trigger(topic, context)
CheckDisinterestTrigger(topic) ==
    /\ context # None
    /\ npc[1].disinterest_signals < MaxSignals
    /\ IF disinterest_exempt(topic, context[1], npc[1])
       THEN /\ last' = [NoLast EXCEPT !.op = "check_disinterest_trigger",
                                      !.arg = Some([topic |-> topic]),
                                      !.ret = Some(FALSE)]
            /\ UNCHANGED npc
       ELSE \E draw \in DrawSamples :
              IF draw < trigger_rate(player[1], npc[1])
              THEN /\ npc' = Some([npc[1] EXCEPT !.disinterest_signals = @ + 1])
                   /\ last' = [NoLast EXCEPT !.op = "check_disinterest_trigger",
                                             !.arg = Some([topic |-> topic]),
                                             !.ret = Some(TRUE)]
              ELSE /\ last' = [NoLast EXCEPT !.op = "check_disinterest_trigger",
                                             !.arg = Some([topic |-> topic]),
                                             !.ret = Some(FALSE)]
                   /\ UNCHANGED npc
    /\ UNCHANGED <<player, context>>

\* apply_disinterest_consequence(context), called when the check has just
\* reported a signal
ApplyDisinterestConsequence ==
    /\ context # None
    /\ last.op = "check_disinterest_trigger"
    /\ last.ret = Some(TRUE)
    /\ npc' = Some(disinterest_consequence(npc[1]))
    /\ last' = [NoLast EXCEPT !.op = "apply_disinterest_consequence"]
    /\ UNCHANGED <<player, context>>

\* the three bundles of a type triple are fetched once and combined twice,
\* as a caller that caches them can do (generate_npc combines them once)
CombineModifiers(role, archetype, social_context) ==
    \E context_mods \in get_context_modifiers(social_context) :
      LET role_mods == get_role_modifiers(role)
          archetype_mods == get_archetype_modifiers(archetype)
      IN  \E first \in combine_modifiers_results(role_mods, archetype_mods,
                                                 context_mods),
             second \in combine_modifiers_results(role_mods, archetype_mods,
                                                  context_mods) :
            /\ last' = [NoLast EXCEPT
                          !.op = "combine_modifiers",
                          !.arg = Some([role |-> role, archetype |-> archetype,
                                        social_context |-> social_context,
                                        role_mods |-> role_mods,
                                        archetype_mods |-> archetype_mods,
                                        context_mods |-> context_mods]),
                          !.ret = Some(<<first, second>>)]
            /\ UNCHANGED <<player, npc, context>>

\* combine_modifiers(role_mods, archetype_mods, context_mods) called on any
\* three bundles: the method is static and reads nothing but its arguments
CombineBundles(role_mods, archetype_mods, context_mods) ==
    \E combined \in combine_modifiers_results(role_mods, archetype_mods,
                                              context_mods) :
      /\ last' = [NoLast EXCEPT
                    !.op = "combine_modifiers",
                    !.arg = Some([role_mods |-> role_mods,
                                  archetype_mods |-> archetype_mods,
                                  context_mods |-> context_mods]),
                    !.ret = Some(<<combined>>)]
      /\ UNCHANGED <<player, npc, context>>

(***************************************************************************)
(* The example session, main() (src/Introvert_rpg.py 830-966).             *)
(*   main.pc       create_character, generate_npc, approach,               *)
(*                 set_attraction, start_interaction, loop (top of the     *)
(*                 turn loop), input (moves on offer, waiting for the      *)
(*                 selection), summary (the loop was left), ended (an      *)
(*                 exception left main)                                    *)
(*   main.turn     the local turn                                          *)
(*   main.choices  the local choices, kept until it is assigned again      *)
(*   main.ended    how the loop was left                                   *)
(***************************************************************************)
\* the turn limit of the loop (turn > 20)
MaxTurns == 20

\* str.upper on the inputs of the session
Upper(s) == IF s = "q" THEN "Q" ELSE IF s = "c" THEN "C" ELSE s

\* int(player_choice): the number a numeral denotes, ValueError (None here)
\* for any other text
ParseInt(s) ==
    CASE s = "-1" -> Some(-1)
      [] s = "0" -> Some(0)
      [] s = "1" -> Some(1)
      [] s = "2" -> Some(2)
      [] s = "3" -> Some(3)
      [] s = "4" -> Some(4)
      [] s = "5" -> Some(5)
      [] OTHER -> None

\* choices[choice_idx] on a Python list: indices -len..-1 count from the end,
\* anything outside -len..len-1 raises IndexError (None here)
PyIndex(list, idx) ==
    IF idx \in 0..(Len(list) - 1) THEN Some(list[idx + 1])
    ELSE IF idx \in (-Len(list))..(-1) THEN Some(list[Len(list) + idx + 1])
    ELSE None

\* one entry of the generation service's answer turned into a DialogueChoice
\* (lines 485-500): text, risk_level and base_success_rate are read with
\* [], is_flirt and topic with .get; KeyError is None here
to_dialogue_choice(choice_data) ==
    IF /\ {"text", "risk_level", "base_success_rate"} \subseteq DOMAIN choice_data
       /\ choice_data.risk_level \in RiskLevel
    THEN Some([risk_level |-> choice_data.risk_level,
               base_success_rate |-> choice_data.base_success_rate,
               is_flirt |-> IF "is_flirt" \in DOMAIN choice_data
                            THEN choice_data.is_flirt ELSE FALSE,
               topic |-> IF "topic" \in DOMAIN choice_data
                         THEN choice_data.topic ELSE None])
    ELSE None

\* generate_dialogue_choices on an answer: None when json.loads or an entry
\* raises, the list of moves otherwise
dialogue_choices(response) ==
    IF response = None THEN None
    ELSE IF \E i \in 1..Len(response[1]) : to_dialogue_choice(response[1][i]) = None
    THEN None
    ELSE Some([i \in 1..Len(response[1]) |-> to_dialogue_choice(response[1][i])[1]])

ChoiceData(risk, flirt) ==
    [text |-> "text", risk_level |-> risk, base_success_rate |-> BaseRate(risk),
     is_flirt |-> flirt, topic |-> None]

\* answers of the generation service to a request for moves: not JSON, four
\* moves, two moves, no move, an entry without 'text', an entry with an
\* unknown risk label, an entry without the optional fields, two moves of
\* which the first carries a topic
GenerationResponses ==
    {None,
     Some(<<[ChoiceData("safe", FALSE) EXCEPT !.topic = STR_golf],
            ChoiceData("risky", FALSE)>>),
     Some(<<ChoiceData("safe", FALSE), ChoiceData("moderate", FALSE),
            ChoiceData("risky", FALSE), ChoiceData("very_risky", TRUE)>>),
     Some(<<ChoiceData("safe", TRUE), ChoiceData("moderate", FALSE)>>),
     Some(<< >>),
     Some(<<ChoiceData("safe", FALSE),
            [risk_level |-> "safe", base_success_rate |-> 80]>>),
     Some(<<[ChoiceData("safe", FALSE) EXCEPT !.risk_level = "extreme"]>>),
     Some(<<[text |-> "text", risk_level |-> "risky", base_success_rate |-> 45]>>)}

\* what the player types at "Choice: "
SelectionInputs == {"Q", "q", "x", "", "-1", "0", "1", "2", "4", "5"}

\* the selection is a number of an offered move: 1..number of moves
ValidSelection(player_choice, choices) ==
    /\ ParseInt(player_choice) # None
    /\ ParseInt(player_choice)[1] \in 1..Len(choices)

InitMain ==
    /\ player = None
    /\ npc = None
    /\ context = None
    /\ last = NoLast
    /\ main = [NoMain EXCEPT !.pc = "create_character"]

\* lines 843-855
MainCreateCharacter ==
    /\ main.pc = "create_character"
    /\ CreateCharacter([eloquence |-> 3, emotional_intelligence |-> 2,
                        body_language_perception |-> 3, persuasion |-> 2,
                        acting |-> 2, intuition |-> 3],
                       CHOOSE background \in Backgrounds : TRUE)
    /\ main' = [main EXCEPT !.pc = "generate_npc"]

\* the types the session's NPC is generated with: the literal arguments of
\* main, and others in their place.  The NPC of the literal arguments has a
\* failure tolerance of max(0, 1 - 2) = 0 and leaves at the top of turn 1.
MainSpawns ==
    {<<"service_worker", "introvert", "working">>}
       \cup {<<s[1], s[2], s[3]>> : s \in Spawns}

\* lines 869-875: an exception of generate_npc leaves main
MainGenerateNpc(role, archetype, social_context) ==
    /\ main.pc = "generate_npc"
    /\ \E acknowledged \in BOOLEAN, parses \in BOOLEAN :
         /\ GenerateNpc(role, archetype, social_context, acknowledged, parses)
         /\ main' = IF parses THEN [main EXCEPT !.pc = "approach"]
                    ELSE [main EXCEPT !.pc = "ended", !.ended = "exception"]

\* lines 894-896
MainApproach(typed) ==
    /\ main.pc = "approach"
    /\ DetermineAttraction(Upper(typed))
    /\ main' = [main EXCEPT !.pc = "set_attraction"]

\* line 897
MainSetAttraction ==
    /\ main.pc = "set_attraction"
    /\ SetAttraction
    /\ main' = [main EXCEPT !.pc = "start_interaction"]

\* lines 899-906
MainStartInteraction ==
    /\ main.pc = "start_interaction"
    /\ StartInteraction
    /\ main' = [main EXCEPT !.pc = "loop", !.turn = 1]

\* Variant: the loop asks for moves without the exit test
MainOffer_unchecked(response) ==
    /\ main.pc = "loop"
    /\ IF dialogue_choices(response) = None
       THEN /\ main' = [main EXCEPT !.pc = "ended", !.ended = "exception"]
            /\ last' = [NoLast EXCEPT !.op = "generate_dialogue_choices",
                                      !.error = "generation_error"]
       ELSE /\ main' = [main EXCEPT !.pc = "input",
                                    !.choices = dialogue_choices(response)[1]]
            /\ last' = [NoLast EXCEPT !.op = "generate_dialogue_choices",
                                      !.ret = dialogue_choices(response)]
    /\ UNCHANGED <<player, npc, context>>

\* lines 907-925: the top of the loop up to the prompt.  The exit test, then
\* a request for moves; an exception of generate_dialogue_choices leaves main.
MainOffer(response) ==
    /\ main.pc = "loop"
    /\ IF should_npc_exit(npc[1]).exit
       THEN /\ main' = [main EXCEPT !.pc = "summary", !.ended = "npc_exit"]
            /\ last' = [NoLast EXCEPT !.op = "should_npc_exit", !.ret = Some(TRUE)]
       ELSE IF dialogue_choices(response) = None
       THEN /\ main' = [main EXCEPT !.pc = "ended", !.ended = "exception"]
            /\ last' = [NoLast EXCEPT !.op = "generate_dialogue_choices",
                                      !.error = "generation_error"]
       ELSE /\ main' = [main EXCEPT !.pc = "input",
                                    !.choices = dialogue_choices(response)[1]]
            /\ last' = [NoLast EXCEPT !.op = "generate_dialogue_choices",
                                      !.ret = dialogue_choices(response)]
    /\ UNCHANGED <<player, npc, context>>

\* lines 927-958: from the typed selection to the end of the loop body.  An
\* exception of resolve_choice is not caught and leaves main.
MainSelect(player_choice) ==
    /\ main.pc = "input"
    /\ IF Upper(player_choice) = "Q"
       THEN /\ main' = [main EXCEPT !.pc = "summary", !.ended = "quit"]
            /\ last' = [NoLast EXCEPT !.op = "input", !.arg = Some(player_choice)]
            /\ UNCHANGED <<player, npc, context>>
       ELSE LET number == ParseInt(player_choice)
                selected_choice == IF number = None THEN None
                                   ELSE PyIndex(main.choices, number[1] - 1)
            IN  IF selected_choice = None
                THEN /\ main' = [main EXCEPT !.pc = "loop"]
                     /\ last' = [NoLast EXCEPT !.op = "input",
                                               !.arg = Some(player_choice),
                                               !.error = "invalid"]
                     /\ UNCHANGED <<player, npc, context>>
                ELSE /\ ResolveChoice(selected_choice[1])
                     /\ main' = IF last'.error # "none"
                                THEN [main EXCEPT !.pc = "ended",
                                                  !.ended = "exception"]
                                ELSE IF main.turn + 1 > MaxTurns
                                THEN [main EXCEPT !.turn = @ + 1, !.pc = "summary",
                                                  !.ended = "turn_cap"]
                                ELSE [main EXCEPT !.turn = @ + 1, !.pc = "loop"]

(***************************************************************************)
(* Specifications.                                                         *)
(***************************************************************************)
Setup ==
    \/ /\ \E stats \in StatsInputs, background \in Backgrounds :
             CreateCharacter(stats, background)
       /\ UNCHANGED main
    \/ /\ \E s \in Spawns, parses \in BOOLEAN :
             GenerateNpc(s[1], s[2], s[3], s[4], parses)
       /\ UNCHANGED main
    \/ /\ \E approach_choice \in {"A", "B", "C", "Q"} :
             DetermineAttraction(approach_choice)
       /\ UNCHANGED main
    \/ SetAttraction /\ UNCHANGED main
    \/ StartInteraction /\ UNCHANGED main

Resolve ==
    /\ \E choice \in Choices : ResolveChoice(choice)
    /\ UNCHANGED main

Disinterest ==
    \/ /\ \E topic \in Topics : CheckDisinterestTrigger(topic)
       /\ UNCHANGED main
    \/ ApplyDisinterestConsequence /\ UNCHANGED main

\* the engine driven through all its operations
Next == Setup \/ Resolve \/ Disinterest

Spec == Init /\ [][Next]_vars

\* the type system alone: every triple of role, archetype and context
NextTypes ==
    /\ \E role \in NPCRole, archetype \in PersonalityArchetype,
          social_context \in SocialContext :
         CombineModifiers(role, archetype, social_context)
    /\ UNCHANGED main

SpecTypes == Init /\ [][NextTypes]_vars

\* bundles the three tables hold, each usable in any argument position:
\* between them every field takes at least two values
SampleModifiers ==
    {get_role_modifiers(role) :
        role \in {"service_worker", "professional", "neighbor", "regular"}}
       \cup {get_archetype_modifiers(archetype) :
                archetype \in {"extrovert", "introvert", "skeptic",
                               "enthusiast"}}
       \cup get_context_modifiers("leisure")
       \cup get_context_modifiers("socializing")

\* combine_modifiers alone, on every triple of those bundles
NextCombine ==
    /\ \E role_mods \in SampleModifiers, archetype_mods \in SampleModifiers,
          context_mods \in SampleModifiers :
         CombineBundles(role_mods, archetype_mods, context_mods)
    /\ UNCHANGED main

SpecCombine == Init /\ [][NextCombine]_vars

\* the example session
NextMain ==
    \/ MainCreateCharacter
    \/ \E s \in MainSpawns : MainGenerateNpc(s[1], s[2], s[3])
    \/ \E typed \in {"A", "B", "c", "x"} : MainApproach(typed)
    \/ MainSetAttraction
    \/ MainStartInteraction
    \/ \E response \in GenerationResponses : MainOffer(response)
    \/ \E player_choice \in SelectionInputs : MainSelect(player_choice)

SpecMain == InitMain /\ [][NextMain]_vars

\* the engine driven through resolve_choice alone once set up
NextResolve == Setup \/ Resolve

SpecResolve == Init /\ [][NextResolve]_vars


(***************************************************************************)
(* Objects built directly, as a caller of the classes can build them: the  *)
(* dataclasses take every field as a constructor argument.                 *)
(***************************************************************************)
StandardPlayer ==
    CharacterStats([eloquence |-> 3, emotional_intelligence |-> 2,
                    body_language_perception |-> 3, persuasion |-> 2,
                    acting |-> 2, intuition |-> 3],
                   STR_artist, {STR_Golf_pro})

\* an NPC in the middle of a romantic conversation and a context whose
\* momentum follows its consecutive positives
InitFlirt ==
    /\ player = Some(StandardPlayer)
    /\ \E base \in {7, 50, 90}, uses \in 0..MaxFlirtUses,
          positives \in 0..MaxPositives, bond \in {0, 2 * Unit, 4 * Unit} :
         /\ npc = Some([NPCState("social", "balanced", "socializing", FALSE) EXCEPT
                          !.attraction_level = "romantic",
                          !.base_flirt_success = base,
                          !.flirt_uses = uses,
                          !.consecutive_positives = positives,
                          !.bond = bond])
         /\ context = Some([InteractionContext EXCEPT !.momentum_bonus = 2 * positives])
    /\ last = NoLast
    /\ main = NoMain

NextFlirt == Resolve

SpecFlirt == InitFlirt /\ [][NextFlirt]_vars

\* bundles of three NPC types whose failure-tolerance modifiers are -3, 0 and 5
SampleBundles ==
    UNION {{combine_modifiers(get_role_modifiers(t[1]),
                              get_archetype_modifiers(t[2]), m) :
               m \in get_context_modifiers(t[3])} :
           t \in {<<"stranger", "skeptic", "working">>,
                  <<"service_worker", "balanced", "leisure">>,
                  <<"social", "extrovert", "socializing">>}}

\* an NPC anywhere in a conversation: any bond, receptiveness, failure count,
\* signal count and bundle
InitExit ==
    /\ player = Some(StandardPlayer)
    /\ \E bond \in {0, Unit - 1, Unit, 2 * Unit, 3 * Unit - 1, 3 * Unit,
                    4 * Unit - 1, 4 * Unit, 10 * Unit},
          receptiveness \in {0, Unit - 1, Unit, 10 * Unit},
          signals \in 0..MaxSignals,
          failures \in 0..MaxFailures,
          mods \in {None} \cup {Some(b) : b \in SampleBundles} :
         npc = Some([NPCState("social", "balanced", "socializing", FALSE) EXCEPT
                       !.bond = bond,
                       !.receptiveness = receptiveness,
                       !.disinterest_signals = signals,
                       !.failures_this_interaction = failures,
                       !.type_modifiers = mods])
    /\ \E domain \in {None, STR_art} :
         context = Some([InteractionContext EXCEPT !.domain_active = domain])
    /\ last = NoLast
    /\ main = NoMain

NextExit == Disinterest

SpecExit == InitExit /\ [][NextExit]_vars

\* a conversation under way at each attraction level, with and without an
\* active domain, for a player with and without skills of at most 1
InitRate ==
    /\ \E stats \in StatsInputs :
         /\ total_points(CharacterStats(stats, STR_artist, {STR_Golf_pro})) = 15
         /\ player = Some(CharacterStats(stats, STR_artist, {STR_Golf_pro}))
    /\ \E attraction \in AttractionLevel, uses \in {0, 2},
          positives \in {0, 3, MaxPositives - 1}, bond \in {0, 2 * Unit},
          domain \in {None, STR_art} :
         /\ npc = Some([NPCState("social", "balanced", "socializing", FALSE) EXCEPT
                          !.attraction_level = attraction,
                          !.base_flirt_success = 50,
                          !.flirt_uses = uses,
                          !.consecutive_positives = positives,
                          !.bond = bond])
         /\ context = Some([InteractionContext EXCEPT
                              !.momentum_bonus = 2 * positives,
                              !.domain_active = domain])
    /\ last = NoLast
    /\ main = NoMain

NextRate == Resolve

SpecRate == InitRate /\ [][NextRate]_vars

\* moves on no topic, on the topic the conversation is anchored to and on a
\* topic of the player's hobbies that the conversation is not anchored to
DomainChoices ==
    {[risk_level |-> r, base_success_rate |-> BaseRate(r), is_flirt |-> f,
      topic |-> t] :
        r \in {"safe", "very_risky"}, f \in BOOLEAN,
        t \in {None, STR_art, STR_golf, STR_chess}}

NextDomain ==
    /\ \E choice \in DomainChoices : ResolveChoice(choice)
    /\ UNCHANGED main

SpecDomain == InitRate /\ [][NextDomain]_vars

\* a conversation under way with an NPC whose background holds the marker or
\* not, at a bond of 0 and above, with and without an active domain
InitDisinterest ==
    /\ player = Some(StandardPlayer)
    /\ \E bond \in {0, Unit \div 4, 2 * Unit}, acknowledged \in BOOLEAN,
          attraction \in AttractionLevel, signals \in 0..MaxSignals,
          domain \in {None, STR_art, STR_artist} :
         /\ npc = Some([NPCState("social", "balanced", "socializing",
                                 acknowledged) EXCEPT
                          !.attraction_level = attraction,
                          !.bond = bond,
                          !.disinterest_signals = signals])
         /\ context = Some([InteractionContext EXCEPT
                              !.domain_active = domain])
    /\ last = NoLast
    /\ main = NoMain

NextDisinterest == Disinterest

SpecDisinterest == InitDisinterest /\ [][NextDisinterest]_vars

\* stats dictionaries of two skills, from below 0 to above 15: six of them
\* total 15, two of those with a negative score
CreationInputs ==
    {[eloquence |-> e, acting |-> a] :
        e \in {-5, 0, 5, 10, 15, 20}, a \in {-5, 0, 5, 10, 15, 20}}

\* create_character alone
NextCreate ==
    /\ \E stats \in CreationInputs, background \in Backgrounds :
          CreateCharacter(stats, background)
    /\ UNCHANGED main

SpecCreate == Init /\ [][NextCreate]_vars

\* generate_npc alone, for every triple of role, archetype and context
NextSpawn ==
    /\ \E role \in NPCRole, archetype \in PersonalityArchetype,
          social_context \in SocialContext, parses \in BOOLEAN :
          GenerateNpc(role, archetype, social_context, FALSE, parses)
    /\ UNCHANGED main

SpecSpawn == Init /\ [][NextSpawn]_vars

\* a conversation under way with an NPC at and around the bonds where the
\* failure tolerance changes, with any failure count and bundle
InitTolerance ==
    /\ player = Some(StandardPlayer)
    /\ \E bond \in {0, Unit - 1, Unit, Unit + Unit \div 4, 3 * Unit - 1,
                    3 * Unit, 4 * Unit},
          failures \in 0..MaxFailures,
          mods \in {None} \cup {Some(b) : b \in SampleBundles} :
         npc = Some([NPCState("social", "balanced", "socializing", FALSE) EXCEPT
                       !.bond = bond,
                       !.failures_this_interaction = failures,
                       !.type_modifiers = mods])
    /\ context = Some(InteractionContext)
    /\ last = NoLast
    /\ main = NoMain

NextTolerance == Resolve

SpecTolerance == InitTolerance /\ [][NextTolerance]_vars

\* a conversation under way, in which moves are resolved and after which a
\* new interaction is started with the same NPC
NextRestart ==
    \/ StartInteraction /\ UNCHANGED main
    \/ Resolve

SpecRestart == InitRate /\ [][NextRestart]_vars

\* an NPC just generated in a TRAPPED context, with each of the bundles the
\* random.choice calls of get_context_modifiers can have resolved to
InitTrapped ==
    /\ player = Some(StandardPlayer)
    /\ \E context_mods \in get_context_modifiers("trapped") :
         npc = Some(apply_modifiers_to_npc(
                       NPCState("stranger", "balanced", "trapped", FALSE),
                       combine_modifiers(get_role_modifiers("stranger"),
                                         get_archetype_modifiers("balanced"),
                                         context_mods)))
    /\ context = None
    /\ last = NoLast
    /\ main = NoMain

\* every operation that is given the NPC after its generation
NextTrapped ==
    \/ /\ \E approach_choice \in {"A", "C"} : DetermineAttraction(approach_choice)
       /\ UNCHANGED main
    \/ SetAttraction /\ UNCHANGED main
    \/ StartInteraction /\ UNCHANGED main
    \/ Resolve
    \/ Disinterest

SpecTrapped == InitTrapped /\ [][NextTrapped]_vars


(***************************************************************************)
(* Properties.                                                             *)
(***************************************************************************)
PlayerInBounds ==
    player # None =>
        /\ player[1].social_battery \in -50..50
        /\ player[1].emotional_bandwidth \in 0..100

NpcInBounds ==
    npc # None =>
        /\ 0 <= npc[1].receptiveness /\ npc[1].receptiveness <= 10 * Unit
        /\ 0 <= npc[1].bond /\ npc[1].bond <= 10 * Unit

\* C1: between resolve_choice calls, from a created character and a generated
\* NPC, social_battery is in [-50,50], emotional_bandwidth in [0,100],
\* receptiveness in [0,10] and bond in [0,10].
C1_BoundsUnderResolve == PlayerInBounds /\ NpcInBounds

\* a failed romantic advance, the costliest move, has been resolved
C1_Witness ==
    /\ last.op = "resolve_choice"
    /\ last.outcome = "failed"
    /\ last.arg[1].is_flirt
    /\ npc[1].attraction_level = "romantic"

\* C2: resolve_choice on a well-formed move runs to completion: it returns
\* (success, outcome, response) with the mutation steps of _apply_outcome
\* applied, and never ends in an error.
C2_ResolveCompletes ==
    last.op = "resolve_choice" =>
        /\ last.error = "none"
        /\ last.ret = Some(<<last.success, last.outcome>>)

\* C3: after any interleaving of resolve_choice, check_disinterest_trigger
\* and apply_disinterest_consequence, receptiveness and bond are within
\* [0,10].
C3_ScalesClamped ==
    npc # None =>
        /\ npc[1].receptiveness \in 0..(10 * Unit)
        /\ npc[1].bond \in 0..(10 * Unit)

\* C4: the momentum resolve_choice adds to a move's base success rate is
\* min(momentum_bonus, cap of the risk tier), so it never exceeds the cap
\* 10 / 12 / 14 / 16 of the move's tier.
C4_MomentumCapped ==
    last.op = "resolve_choice" =>
        /\ last.momentum <= get_momentum_cap(last.arg[1].risk_level)
        /\ ~last.arg[1].is_flirt =>
             last.rate - last.arg[1].base_success_rate - last.boost
                <= get_momentum_cap(last.arg[1].risk_level)

\* a move was resolved with more momentum accumulated than its tier allows
C4_Witness ==
    /\ last.op = "resolve_choice"
    /\ ~last.arg[1].is_flirt
    /\ context[1].momentum_bonus > get_momentum_cap(last.arg[1].risk_level)
    /\ last.rate = last.arg[1].base_success_rate
                      + get_momentum_cap(last.arg[1].risk_level)

\* C5: get_flirt_success_rate is in [10,100] for every base_flirt_success,
\* flirt_uses >= 0, consecutive_positives >= 0 and bond in [0,10]; so is the
\* rate a romantic advance toward a romantically approached NPC is rolled
\* against.
C5_FlirtRateInRange ==
    /\ npc # None => get_flirt_success_rate(npc[1]) \in 10..100
    /\ (last.op = "resolve_choice" /\ last.arg[1].is_flirt
          /\ npc[1].attraction_level = "romantic") => last.rate \in 10..100

\* the unclamped rate is below 10 and the move was rolled against 10
C5_Witness ==
    /\ last.op = "resolve_choice"
    /\ last.arg[1].is_flirt
    /\ npc[1].base_flirt_success - npc[1].flirt_uses * 20 + restoration(npc[1]) < 10
    /\ last.rate = 10

StatsTotal(stats) ==
    DictGet(stats, "eloquence") + DictGet(stats, "emotional_intelligence")
      + DictGet(stats, "body_language_perception") + DictGet(stats, "persuasion")
      + DictGet(stats, "acting") + DictGet(stats, "intuition")

\* C6: create_character succeeds iff the six skills (a missing one counting
\* 0) total exactly 15; otherwise it raises and the current player is left
\* as it was.
C6_CreateCharacter ==
    [][last'.op = "create_character" =>
         /\ (last'.error = "none") <=> (StatsTotal(last'.arg[1]) = 15)
         /\ last'.error # "none" => player' = player
         /\ last'.error = "none" =>
              /\ player' = last'.ret
              /\ \A k \in SkillNames : player'[1][k] = DictGet(last'.arg[1], k)]_vars

\* a call was rejected while a current player existed
C6_Witness ==
    /\ last.op = "create_character"
    /\ last.error = "ValueError"
    /\ player # None

ToleranceModifier(n) ==
    IF n.type_modifiers = None THEN 0
    ELSE n.type_modifiers[1].failure_tolerance_modifier

\* C7: from bond below 1.0, failure-tolerance modifier 0 and zero failures,
\* after the first resolved move whose outcome is 'failed' should_npc_exit
\* returns True through the failure-tolerance path.
C7_ExitOnFirstFailure ==
    [][(/\ last'.op = "resolve_choice"
        /\ last'.outcome = "failed"
        /\ npc[1].bond < 1 * Unit
        /\ ToleranceModifier(npc[1]) = 0
        /\ npc[1].failures_this_interaction = 0)
         => should_npc_exit(npc'[1]) =
               [exit |-> TRUE, message |-> "politely wraps up"]]_vars

\* C8: whenever disinterest_signals is 3 or more should_npc_exit returns
\* True, whatever the bond, receptiveness, failure count and modifier.
C8_ThreeSignalsExit ==
    (npc # None /\ npc[1].disinterest_signals >= 3) => should_npc_exit(npc[1]).exit

\* three signals are the only reason to leave
C8_Witness ==
    /\ npc # None
    /\ npc[1].disinterest_signals = 3
    /\ can_tolerate_failure(npc[1])
    /\ npc[1].receptiveness >= 1 * Unit
    /\ last.op = "check_disinterest_trigger"
    /\ last.ret = Some(TRUE)

ApproachCostDue(n) == IF n.bond = 0 THEN approach_costs(n.attraction_level) ELSE 0

\* C9: when a romantic advance fails, emotional_bandwidth changes, before
\* the clamp, by the approach cost (if due) plus the tiered 'failed' delta
\* of the attraction level minus 5 more; for any other resolved move by the
\* approach cost (if due) plus the tiered delta of its outcome alone.
C9_RejectionSting ==
    [][last'.op = "resolve_choice" =>
         \E delta \in bandwidth_changes(npc[1].attraction_level)[last'.outcome] :
            player'[1].emotional_bandwidth =
               ClampBandwidth(player[1].emotional_bandwidth + ApproachCostDue(npc[1])
                  + delta
                  - (IF last'.arg[1].is_flirt /\ ~last'.success THEN 5 ELSE 0))]_vars

\* C10: when start_interaction is called with an NPC that took part in an
\* earlier interaction, its failures_this_interaction and
\* disinterest_signals are 0 at the start of the new interaction.
C10_CountersReset ==
    last.op = "start_interaction" =>
        /\ npc[1].failures_this_interaction = 0
        /\ npc[1].disinterest_signals = 0

\* C11: should_npc_exit looks at three conditions in a fixed order and the
\* first that holds decides the message: failures at the tolerance -> polite
\* wrap-up; else three signals -> lost interest; else receptiveness below 1.0
\* -> uncomfortable excuse; it returns (False, "") iff none of them holds.
C11_ExitOrder ==
    npc # None =>
      LET n == npc[1]
          tolerance_reached == n.failures_this_interaction >= failure_tolerance(n)
          signalled == n.disinterest_signals >= 3
          unreceptive == n.receptiveness < 1 * Unit
          r == should_npc_exit(n)
      IN  /\ tolerance_reached => r = [exit |-> TRUE, message |-> "politely wraps up"]
          /\ (~tolerance_reached /\ signalled) =>
                r = [exit |-> TRUE, message |-> "lost interest"]
          /\ (~tolerance_reached /\ ~signalled /\ unreceptive) =>
                r = [exit |-> TRUE, message |-> "uncomfortable excuse"]
          /\ (r = [exit |-> FALSE, message |-> ""])
                <=> (~tolerance_reached /\ ~signalled /\ ~unreceptive)

\* all three conditions hold at once, after a signal that was just counted
C11_Witness ==
    /\ npc # None
    /\ npc[1].failures_this_interaction >= failure_tolerance(npc[1])
    /\ npc[1].disinterest_signals >= 3
    /\ npc[1].receptiveness < 1 * Unit
    /\ last.op = "check_disinterest_trigger"
    /\ last.ret = Some(TRUE)
    /\ should_npc_exit(npc[1]).message = "politely wraps up"

C13_BaristaBundle ==
    (/\ last.op = "combine_modifiers"
     /\ last.arg[1].role = "service_worker"
     /\ last.arg[1].archetype = "introvert"
     /\ last.arg[1].social_context = "working") =>
      /\ last.arg[1].role_mods.base_receptiveness * 10 = 15 * Unit
      /\ last.arg[1].archetype_mods.base_receptiveness * 10 = 18 * Unit
      /\ last.arg[1].context_mods.base_receptiveness * 10 = 15 * Unit
      /\ last.ret[1][1].base_receptiveness * 10 = 16 * Unit
      /\ last.ret[1][1].base_receptiveness < 2 * Unit
      /\ last.arg[1].role_mods.battery_drain_multiplier = 12
      /\ last.arg[1].archetype_mods.battery_drain_multiplier = 7
      /\ last.arg[1].context_mods.battery_drain_multiplier = 12
      /\ last.ret[1][1].battery_drain_multiplier = 1008
      /\ last.ret[1][1].battery_drain_multiplier > 1000

\* the three bundles of that triple have been combined
C13_Witness ==
    /\ last.op = "combine_modifiers"
    /\ last.arg[1].role = "service_worker"
    /\ last.arg[1].archetype = "introvert"
    /\ last.arg[1].social_context = "working"
    /\ last.ret[1][1].failure_tolerance_modifier = -2

\* C14: in the turn loop, for every selection that is non-numeric or outside
\* 1..number of offered moves (0 and negative numbers included), no move is
\* resolved, no player or NPC state is mutated, the turn counter does not
\* advance, and the same move set is offered again.
C14_InvalidSelection ==
    [][/\ \A player_choice \in SelectionInputs :
            (/\ MainSelect(player_choice)
             /\ Upper(player_choice) # "Q"
             /\ ~ValidSelection(player_choice, main.choices)) =>
               /\ last'.op # "resolve_choice"
               /\ UNCHANGED <<player, npc, context>>
               /\ main'.turn = main.turn
               /\ main'.ended = "none"
       /\ (main.pc = "loop" /\ last.op = "input" /\ last.error = "invalid") =>
               /\ main'.pc = "input"
               /\ main'.choices = main.choices]_vars

\* C15: a malformed answer to a request for moves (not parsable, a required
\* field missing, an unknown risk label) is recoverable: player, NPC and
\* context are unchanged by the failed request and the conversation goes on
\* (the request is retried or the turn aborted); the interaction is not
\* ended.
C15_GenerationRecoverable ==
    [][(last'.op = "generate_dialogue_choices" /\ last'.error # "none") =>
          /\ UNCHANGED <<player, npc, context>>
          /\ main'.turn = main.turn
          /\ main'.ended = "none"
          /\ main'.pc \in {"loop", "input"}]_vars

\* C20: the approach cost on emotional_bandwidth (-7 romantic, -5 platonic,
\* -3 neutral) is paid on the NPC's very first exchange and on no later one:
\* the move of turn 1 changes the bandwidth by the cost plus the tiered delta
\* (minus 5 for a failed advance), a later move by the delta alone.
C20_ApproachCostOnce ==
    [][(main.pc = "input" /\ last'.op = "resolve_choice") =>
          \E delta \in bandwidth_changes(npc[1].attraction_level)[last'.outcome] :
             player'[1].emotional_bandwidth =
                ClampBandwidth(player[1].emotional_bandwidth
                   + (IF main.turn = 1
                      THEN approach_costs(npc[1].attraction_level) ELSE 0)
                   + delta
                   - (IF last'.arg[1].is_flirt /\ ~last'.success THEN 5 ELSE 0))]_vars

\* C17: the bundle stored on an NPC when it is generated is never changed
\* afterwards: determine_attraction, start_interaction, resolve_choice,
\* check_disinterest_trigger, apply_disinterest_consequence (and
\* should_npc_exit, a pure test) leave every field of it as it was, the
\* randomly resolved fields of a TRAPPED context included.
C17_BundleFrame ==
    [][(npc # None /\ last'.op # "generate_npc") =>
          /\ npc' # None
          /\ npc'[1].type_modifiers = npc[1].type_modifiers
          /\ npc'[1].role = npc[1].role
          /\ npc'[1].archetype = npc[1].archetype
          /\ npc'[1].social_context = npc[1].social_context]_vars

\* an NPC of a TRAPPED context that drew receptiveness 2.5, patience 0.7 and
\* tolerance -1 has been approached, talked to and penalised for disinterest
C17_Witness ==
    /\ npc # None
    /\ npc[1].social_context = "trapped"
    /\ npc[1].type_modifiers # None
    /\ npc[1].type_modifiers[1].base_receptiveness * 3 = Unit + 2 * Unit + 150
    /\ npc[1].type_modifiers[1].failure_tolerance_modifier < 0
    /\ npc[1].attraction_level = "romantic"
    /\ npc[1].disinterest_signals = 2
    /\ last.op = "apply_disinterest_consequence"

\* C18: for a romantic advance toward an NPC whose attraction level is
\* romantic the rate rolled against is exactly get_flirt_success_rate(),
\* whatever the move's base rate, the momentum and the domain bonus; in every
\* other case it is base_success_rate + capped momentum + domain bonus; and
\* success holds iff the roll in 1..100 is <= the rate.
C18_RateReplacement ==
    [][last'.op = "resolve_choice" =>
          /\ IF last'.arg[1].is_flirt /\ npc[1].attraction_level = "romantic"
             THEN last'.rate = get_flirt_success_rate(npc[1])
             ELSE last'.rate = last'.arg[1].base_success_rate
                     + Min2(context[1].momentum_bonus,
                            get_momentum_cap(last'.arg[1].risk_level))
                     + last'.boost
          /\ last'.roll \in 1..100
          /\ last'.success <=> (last'.roll <= last'.rate)]_vars

\* a romantic advance with momentum and a domain bonus at hand was rolled
\* against the flirt rate alone and failed on a roll the summed rate would
\* have passed
C18_Witness ==
    /\ last.op = "resolve_choice"
    /\ last.arg[1].is_flirt
    /\ npc[1].attraction_level = "romantic"
    /\ context[1].momentum_bonus > 0
    /\ last.boost > 0
    /\ last.rate = get_flirt_success_rate(npc[1])
    /\ last.rate < last.roll
    /\ last.roll <= last.arg[1].base_success_rate + last.momentum + last.boost
    /\ ~last.success

\* C19: base_flirt_success is rolled once per NPC: once a romantic approach
\* toward the NPC has set it, no later operation on that NPC (further
\* romantic determine_attraction calls and resolved moves included) changes
\* it.
C19_FlirtBaseRolledOnce ==
    [][(/\ npc # None
        /\ \/ npc[1].attraction_level = "romantic"
           \/ last.op = "determine_attraction" /\ last.ret = Some("romantic")
        /\ last'.op # "generate_npc") =>
          /\ npc' # None
          /\ npc'[1].base_flirt_success = npc[1].base_flirt_success]_vars

\* C21: can_tolerate_failure is True iff failures_this_interaction is below
\* max(0, base(bond) + failure_tolerance_modifier), with base 1 for bond < 1,
\* 2 for 1 <= bond < 3, 3 for 3 <= bond < 4 and 4 for bond >= 4, and the
\* modifier 0 for an NPC without a bundle.
C21_ToleranceFormula ==
    npc # None =>
      LET n == npc[1]
          base == IF n.bond < 1 * Unit THEN 1
                  ELSE IF n.bond < 3 * Unit THEN 2
                  ELSE IF n.bond < 4 * Unit THEN 3
                  ELSE 4
          modifier == IF n.type_modifiers = None THEN 0
                      ELSE n.type_modifiers[1].failure_tolerance_modifier
      IN  can_tolerate_failure(n)
            <=> (n.failures_this_interaction < Max2(0, base + modifier))

\* an NPC of bond 4.0 or more whose bundle takes failures away is at its
\* last tolerated failure: one below 4 + modifier
C21_Witness ==
    /\ npc # None
    /\ npc[1].bond >= 4 * Unit
    /\ npc[1].type_modifiers # None
    /\ npc[1].type_modifiers[1].failure_tolerance_modifier < 0
    /\ npc[1].failures_this_interaction + 1
          = 4 + npc[1].type_modifiers[1].failure_tolerance_modifier
    /\ can_tolerate_failure(npc[1])

\* C22: _determine_outcome returns FAILED iff the roll failed; on success
\* VERY_POSITIVE for a very-risky move at bond >= 4.0, one of VERY_POSITIVE
\* and POSITIVE for any other risky or very-risky move, POSITIVE for a
\* moderate move, one of POSITIVE and NEUTRAL for a safe move; NEGATIVE is
\* never the outcome of a resolved move.
C22_OutcomeClassifier ==
    [][last'.op = "resolve_choice" =>
          LET risk == last'.arg[1].risk_level
              allowed ==
                 IF ~last'.success THEN {"failed"}
                 ELSE IF risk = "very_risky" /\ npc[1].bond >= 4 * Unit
                      THEN {"very_positive"}
                 ELSE IF risk \in {"risky", "very_risky"}
                      THEN {"very_positive", "positive"}
                 ELSE IF risk = "moderate" THEN {"positive"}
                 ELSE {"positive", "neutral"}
          IN  /\ last'.outcome \in allowed
              /\ last'.outcome # "negative"
              /\ \A choice \in Choices :
                    choice.risk_level = risk =>
                       determine_outcome(choice, last'.success, npc[1]) = allowed]_vars

\* a very-risky move succeeded at bond 4.0
C22_Witness ==
    /\ last.op = "resolve_choice"
    /\ last.arg[1].risk_level = "very_risky"
    /\ ~last.arg[1].is_flirt
    /\ last.success
    /\ npc[1].bond >= 4 * Unit
    /\ last.outcome = "very_positive"

\* C23: after a resolved move whose outcome is VERY_POSITIVE or POSITIVE,
\* consecutive_positives is one more than before and momentum_bonus is twice
\* the new consecutive_positives; after any other outcome both are 0.
C23_MomentumTracking ==
    [][last'.op = "resolve_choice" =>
          IF last'.outcome \in {"very_positive", "positive"}
          THEN /\ npc'[1].consecutive_positives = npc[1].consecutive_positives + 1
               /\ context'[1].momentum_bonus = 2 * npc'[1].consecutive_positives
          ELSE /\ npc'[1].consecutive_positives = 0
               /\ context'[1].momentum_bonus = 0]_vars

\* C24: for an NPC with a bundle the net change of social_battery in one
\* resolved move, before the clamp to [-50,50], is the table delta rescaled
\* by the battery-drain multiplier and truncated (not the table delta plus
\* the rescaled delta); for an NPC without a bundle it is the table delta.
C24_BatteryRescaled ==
    [][last'.op = "resolve_choice" =>
          \E delta \in battery_changes(npc[1].attraction_level)[last'.outcome] :
             player'[1].social_battery =
                ClampBattery(player[1].social_battery
                   + (IF npc[1].type_modifiers = None THEN delta
                      ELSE PyInt(delta
                             * npc[1].type_modifiers[1].battery_drain_multiplier,
                             1000)))]_vars

\* C25: failures_this_interaction goes up by exactly 1 in a resolved move
\* whose outcome is FAILED and is unchanged by a resolved move with any other
\* outcome.
C25_FailureCounter ==
    [][last'.op = "resolve_choice" =>
          npc'[1].failures_this_interaction =
             npc[1].failures_this_interaction
                + (IF last'.outcome = "failed" THEN 1 ELSE 0)]_vars

\* C26: flirt_uses goes up by exactly 1 in every resolved move that is a
\* romantic advance, succeeded or failed, and is unchanged by every other
\* resolved move.
C26_FlirtCounter ==
    [][last'.op = "resolve_choice" =>
          npc'[1].flirt_uses =
             npc[1].flirt_uses + (IF last'.arg[1].is_flirt THEN 1 ELSE 0)]_vars

\* C27: for the numeric fields combine_modifiers yields base_receptiveness =
\* the arithmetic mean of the three inputs, base_bond = the maximum of the
\* three, conversation_patience = the product of the three, domain_boost =
\* the sum of the three, battery_drain_multiplier = the product of the three
\* and failure_tolerance_modifier = the sum of the three.
C27_NumericFields ==
    last.op = "combine_modifiers" =>
      LET r == last.arg[1].role_mods
          a == last.arg[1].archetype_mods
          c == last.arg[1].context_mods
          combined == last.ret[1][1]
      IN  /\ 3 * combined.base_receptiveness =
                r.base_receptiveness + a.base_receptiveness
                   + c.base_receptiveness
          /\ combined.base_bond \in {r.base_bond, a.base_bond, c.base_bond}
          /\ combined.base_bond >= r.base_bond
          /\ combined.base_bond >= a.base_bond
          /\ combined.base_bond >= c.base_bond
          /\ combined.conversation_patience =
                r.conversation_patience * a.conversation_patience
                   * c.conversation_patience
          /\ combined.domain_boost =
                r.domain_boost + a.domain_boost + c.domain_boost
          /\ combined.battery_drain_multiplier =
                r.battery_drain_multiplier * a.battery_drain_multiplier
                   * c.battery_drain_multiplier
          /\ combined.failure_tolerance_modifier =
                r.failure_tolerance_modifier + a.failure_tolerance_modifier
                   + c.failure_tolerance_modifier

\* three bundles that differ in every numeric field have been combined, two
\* of them with a bond above 0 and the highest bond not in the first
C27_Witness ==
    /\ last.op = "combine_modifiers"
    /\ last.arg[1].role_mods = get_role_modifiers("neighbor")
    /\ last.arg[1].archetype_mods = get_archetype_modifiers("enthusiast")
    /\ last.arg[1].context_mods = get_role_modifiers("regular")
    /\ last.ret[1][1].base_bond = 30
    /\ last.ret[1][1].base_receptiveness = 122
    /\ last.ret[1][1].conversation_patience = 1080
    /\ last.ret[1][1].domain_boost = 3
    /\ last.ret[1][1].battery_drain_multiplier = 1170
    /\ last.ret[1][1].failure_tolerance_modifier = 2

C29_DomainBonusNeedsMatch ==
    [][(/\ last'.op = "resolve_choice"
        /\ \/ last'.arg[1].topic = None
           \/ context[1].domain_active = None
           \/ Lower(last'.arg[1].topic) # Lower(context[1].domain_active))
          => last'.boost = 0]_vars

\* C30: get_flirt_success_rate equals clamp(10, 100, base_flirt_success
\* - 20 x flirt_uses + consecutive_positives x k) with k = 2 for bond < 1,
\* 3 for bond < 2, 4 for bond < 3, 5 for bond < 4 and 6 for bond >= 4; so
\* with consecutive_positives = 0 each further romantic advance lowers the
\* next flirt rate by 20 until it rests at the floor of 10.
C30_FlirtRateDegrades ==
    [][(/\ last'.op = "resolve_choice"
        /\ last'.arg[1].is_flirt
        /\ npc[1].attraction_level = "romantic") =>
          LET k == IF npc[1].bond < 1 * Unit THEN 2
                   ELSE IF npc[1].bond < 2 * Unit THEN 3
                   ELSE IF npc[1].bond < 3 * Unit THEN 4
                   ELSE IF npc[1].bond < 4 * Unit THEN 5
                   ELSE 6
              rate == npc[1].base_flirt_success - 20 * npc[1].flirt_uses
                         + npc[1].consecutive_positives * k
          IN  /\ last'.rate = Max2(10, Min2(100, rate))
              /\ (npc[1].consecutive_positives = 0
                    /\ npc'[1].consecutive_positives = 0) =>
                   get_flirt_success_rate(npc'[1]) = Max2(10, last'.rate - 20)]_vars

\* C31: apply_disinterest_consequence applies a consequence keyed by the
\* current signal count: at the 1st signal receptiveness drops by 0.25 and
\* bond is unchanged; at the 2nd receptiveness drops by 0.5 and bond by
\* 0.25; at the 3rd and later receptiveness drops by 1.0, bond by 0.5 and
\* the conversation is ended (should_npc_exit is True afterwards).
C31_DisinterestConsequence ==
    [][last'.op = "apply_disinterest_consequence" =>
          LET signals == npc[1].disinterest_signals
              receptiveness_drop == npc[1].receptiveness - npc'[1].receptiveness
              bond_drop == npc[1].bond - npc'[1].bond
          IN  /\ signals >= 1
              /\ npc'[1].disinterest_signals = signals
              /\ signals = 1 =>
                   receptiveness_drop * 4 = Unit /\ bond_drop = 0
              /\ signals = 2 =>
                   receptiveness_drop * 2 = Unit /\ bond_drop * 4 = Unit
              /\ signals >= 3 =>
                   /\ receptiveness_drop = Unit
                   /\ bond_drop * 2 = Unit
                   /\ should_npc_exit(npc'[1]).exit]_vars

\* the consequence of a third signal has been applied to an NPC that kept
\* the receptiveness and bond it still had at its second signal
C31_Witness ==
    /\ last.op = "apply_disinterest_consequence"
    /\ npc[1].disinterest_signals = 3
    /\ npc[1].receptiveness = 10 * Unit - Unit
    /\ npc[1].bond * 2 = 4 * Unit - Unit
    /\ should_npc_exit(npc[1]).exit

\* C32 (as stated): check_disinterest_trigger can increment
\* disinterest_signals (by exactly 1, returning True) only when the move
\* carries a topic label, the topic lies outside the active domain, and the
\* NPC's background does not contain the exemption marker; when the topic is
\* within the active domain, or the background contains the marker, it
\* returns False and leaves disinterest_signals unchanged for every bond
\* value and every random draw.
C32_SignalOnlyOffTopic ==
    [][last'.op = "check_disinterest_trigger" =>
          LET topic == last'.arg[1].topic
              within == /\ topic # None
                        /\ context[1].domain_active # None
                        /\ Contains(Lower(topic), Lower(context[1].domain_active))
              marker == npc[1].acknowledged
          IN  /\ (npc'[1].disinterest_signals # npc[1].disinterest_signals
                     \/ last'.ret = Some(TRUE)) =>
                   /\ npc'[1].disinterest_signals = npc[1].disinterest_signals + 1
                   /\ last'.ret = Some(TRUE)
                   /\ topic # None
                   /\ ~within
                   /\ ~marker
              /\ (within \/ marker) =>
                   /\ last'.ret = Some(FALSE)
                   /\ npc'[1].disinterest_signals = npc[1].disinterest_signals]_vars

\* C32 (amended): check_disinterest_trigger can increment
\* disinterest_signals (by exactly 1, returning True) only when the topic is
\* not within the active domain (a move without a topic counts as outside)
\* and it is not the case that the bond is above 0 and the background
\* contains the marker; when the topic is within the active domain, or the
\* bond is above 0 and the background contains the marker, it returns False
\* and leaves disinterest_signals unchanged for every random draw; nothing
\* but disinterest_signals is changed.
C32_SignalOnlyUnexempted ==
    [][last'.op = "check_disinterest_trigger" =>
          LET topic == last'.arg[1].topic
              within == /\ topic # None
                        /\ context[1].domain_active # None
                        /\ Contains(Lower(topic), Lower(context[1].domain_active))
              marker == npc[1].bond > 0 /\ npc[1].acknowledged
          IN  /\ (npc'[1].disinterest_signals # npc[1].disinterest_signals
                     \/ last'.ret = Some(TRUE)) =>
                   /\ npc'[1].disinterest_signals = npc[1].disinterest_signals + 1
                   /\ last'.ret = Some(TRUE)
                   /\ ~within
                   /\ ~marker
              /\ (within \/ marker) =>
                   /\ last'.ret = Some(FALSE)
                   /\ npc'[1].disinterest_signals = npc[1].disinterest_signals
              /\ npc' = Some([npc[1] EXCEPT !.disinterest_signals =
                                               npc'[1].disinterest_signals])
              /\ UNCHANGED <<player, context>>]_vars

\* a signal has been counted against an NPC whose background holds the
\* marker and whose bond is 0, on a topic outside the active domain
C32_Witness ==
    /\ last.op = "check_disinterest_trigger"
    /\ last.ret = Some(TRUE)
    /\ last.arg[1].topic = STR_golf
    /\ context[1].domain_active = STR_artist
    /\ npc[1].acknowledged
    /\ npc[1].bond = 0
    /\ npc[1].disinterest_signals = 1

\* C33: on every turn of an interaction in which the chosen move carries a
\* topic label that lies outside the active domain and no exemption applies,
\* a disinterest check is performed as part of that turn, so that
\* disinterest_signals can grow (for a draw below the trigger rate the turn
\* counts a signal) and termination path (b) is reachable by playing turns.
C33_TurnChecksDisinterest ==
    (main.pc = "input" /\ npc[1].disinterest_signals < 3) =>
      \A player_choice \in SelectionInputs :
        (/\ ValidSelection(player_choice, main.choices)
         /\ main.choices[ParseInt(player_choice)[1]].topic # None
         /\ ~disinterest_exempt(main.choices[ParseInt(player_choice)[1]].topic,
                                context[1], npc[1]))
          => ENABLED (/\ MainSelect(player_choice)
                      /\ npc'[1].disinterest_signals
                            = npc[1].disinterest_signals + 1)

\* C34: in one resolved move the change of receptiveness before clamping
\* lies in [+0.75,+1.0] for VERY_POSITIVE, [+0.25,+0.5] for POSITIVE,
\* [-0.25,0] for NEUTRAL and [-1.0,-0.5] for FAILED; the change of bond lies
\* in the same ranges except [-0.5,-0.25] for FAILED.  Hence a VERY_POSITIVE
\* or POSITIVE outcome never lowers receptiveness or bond and a NEUTRAL or
\* FAILED outcome never raises them.
C34_ScaleDeltaRanges ==
    [][last'.op = "resolve_choice" =>
          LET outcome == last'.outcome
              receptiveness_range ==
                 CASE outcome = "very_positive" -> (3 * Unit) \div 4 .. Unit
                   [] outcome = "positive" -> Unit \div 4 .. Unit \div 2
                   [] outcome = "neutral" -> -(Unit \div 4) .. 0
                   [] outcome = "failed" -> -Unit .. -(Unit \div 2)
                   [] OTHER -> {}
              bond_range ==
                 IF outcome = "failed" THEN -(Unit \div 2) .. -(Unit \div 4)
                 ELSE receptiveness_range
          IN  /\ \E dr \in receptiveness_range :
                    npc'[1].receptiveness = ClampScale(npc[1].receptiveness + dr)
              /\ \E db \in bond_range :
                    npc'[1].bond = ClampScale(npc[1].bond + db)]_vars

\* C35: in the turn loop the termination policy is consulted before every
\* move: no move is offered or resolved in a state in which should_npc_exit
\* returns True, and once it returns True the interaction ends without
\* resolving another move.
C35_ExitConsultedFirst ==
    [][/\ main'.pc = "input" => ~should_npc_exit(npc'[1]).exit
       /\ (last'.op \in {"generate_dialogue_choices", "resolve_choice"}
             /\ main.pc \in {"loop", "input"}) => ~should_npc_exit(npc[1]).exit
       /\ (main.pc = "loop" /\ should_npc_exit(npc[1]).exit) =>
             /\ main' = [main EXCEPT !.pc = "summary", !.ended = "npc_exit"]
             /\ UNCHANGED <<player, npc, context>>
       /\ main.ended = "npc_exit" => UNCHANGED <<player, npc, context, main>>]_vars

\* the loop was left at its top because the policy said so, with no move
\* offered in that turn
C35_Witness ==
    /\ main.pc = "summary"
    /\ main.ended = "npc_exit"
    /\ should_npc_exit(npc[1]).exit
    /\ last.op = "should_npc_exit"
    /\ last.ret = Some(TRUE)

\* C36: every character that create_character accepts has six non-negative
\* skill scores: an input whose skills sum to 15 but contains a negative
\* score (for example 20, -5, 0, 0, 0, 0) does not yield a character.
C36_SkillsNonNegative ==
    /\ player # None => \A k \in SkillNames : player[1][k] >= 0
    /\ (last.op = "create_character"
          /\ \E k \in SkillNames : DictGet(last.arg[1], k) < 0) =>
         last.error # "none"

\* C37: for every role/archetype/context triple (including both random
\* resolutions of the TRAPPED context), a freshly spawned NPC with zero
\* failures and zero disinterest signals is not ended by the termination
\* policy before any move has been resolved: should_npc_exit returns False
\* on the first turn.
C37_FreshNpcStays ==
    (/\ npc # None
     /\ npc[1].failures_this_interaction = 0
     /\ npc[1].disinterest_signals = 0) => ~should_npc_exit(npc[1]).exit

C40_AttractionFrame ==
    [][last'.op = "determine_attraction" =>
          LET approach_choice == last'.arg[1]
              attraction == last'.ret[1]
          IN  /\ approach_choice = "A" => attraction = "neutral"
              /\ approach_choice = "B" => attraction = "platonic"
              /\ approach_choice = "C" => attraction = "romantic"
              /\ approach_choice \notin {"A", "B", "C"} => attraction = "neutral"
              /\ attraction # "romantic" => npc' = npc
              /\ attraction = "romantic" =>
                   npc' = Some([npc[1] EXCEPT !.base_flirt_success =
                                                 npc'[1].base_flirt_success])
              /\ npc'[1].attraction_level = npc[1].attraction_level
              /\ UNCHANGED <<player, context>>]_vars

\* a romantic approach has been determined for an NPC that was approached
\* platonically before: the roll replaced its base_flirt_success and its
\* attraction_level is still the one stored earlier
C40_Witness ==
    /\ last.op = "determine_attraction"
    /\ last.arg = Some("C")
    /\ last.ret = Some("romantic")
    /\ npc[1].attraction_level = "platonic"
    /\ npc[1].base_flirt_success # 90

====
